---- MODULE Spec2Model ----
(***************************************************************************)
(* Model of the benchmark comparison engine of bcsv:                       *)
(*   - benchmark/compare_runs.py: the mismatch guard, the regression       *)
(*     comparator, the leaderboard store and the comparison entry point;   *)
(*   - benchmark/run_interleaved_pairs.py: the interleaved pair runner.    *)
(* Timings and sizes are non-negative integers; a percentage delta is the  *)
(* exact rational num/den, so that the comparison with the threshold is    *)
(* decided without rounding.                                               *)
(***************************************************************************)
EXTENDS Integers, Sequences, FiniteSets, TLC

(***************************************************************************)
(* Bounds of the model.                                                    *)
(***************************************************************************)
\* Invocations of compare_runs.main in one behaviour of SpecLeaderboard.
MaxRuns == 3
\* Largest --repetitions value the interleaved pair runner is given.
MaxReps == 2
\* The longest list of repetition payloads passed to the aggregator.
MaxPayloads == 3
\* Modification times of run directories are 1..MaxMtime.
MaxMtime == 2

\* Python's None where a number is expected (r.get("num_rows"), "updated").
None == -1

VARIABLES
    \* ---- compare_runs.main: one process at a time ----
    pc,               \* position of main
    args,             \* parsed command line
    baseline_dir,     \* the baseline run directory: [exists, hasfile, payload]
    candidate_dir,    \* the candidate run directory: [exists, hasfile, payload]
    recent,           \* number of run directories find_latest_runs finds
    baseline,         \* load_macro_results(baseline_dir)
    candidate,        \* load_macro_results(candidate_dir)
    mismatches,       \* find_row_count_mismatches(baseline, candidate)
    compared,         \* TRUE once compare_results has been evaluated
    comparisons,      \* the list compare_results returned
    report,           \* TRUE once the report was printed or written
    lb,               \* the leaderboard in memory: [updated, entries]
    lb_ret,           \* what update_leaderboard returned
    exit_code,        \* None until main returns
    leaderboard_json, \* the persisted document: [exists, updated, entries]
    saves,            \* number of times save_leaderboard wrote the document
    clock,            \* datetime.now()
    runs,             \* invocations started so far
    \* ---- run_interleaved_pairs.main and its child processes ----
    rpc,              \* position of the runner
    rargs,            \* parsed command line of the runner
    exe_ok,           \* the four executables exist and are executable
    run_types,        \* parse_types(args.types)
    rep,              \* loop variable of "for rep in range(1, repetitions + 1)"
    ti,               \* index of run_type in run_types
    step,             \* index in PairSteps inside _run_parallel_pair
    procs,            \* every child process started: id -> [state, rc]
    files,            \* result files and logs under the results root: path -> content
    base_rc,          \* p_base.wait()
    cand_rc,          \* p_cand.wait()
    warnings,         \* WARNING lines printed by _require_output_or_success
    launched,         \* ids of the processes started, in order
    error,            \* the exception that ended the runner, or "none"
    root_before,      \* the files the results root held when main started
    \* ---- lib/aggregation.py: one call of an aggregate_*_payloads function ----
    agg_pc,           \* "idle" before the call, "returned" after it
    agg_fn,           \* "macro" or "micro": the function called
    agg_in,           \* the list of repetition payloads passed in
    agg_rt,           \* the run_type argument (macro only)
    agg_out,          \* the payload returned, or NoPayload
    \* ---- lib/discovery.py: latest_clean_run over a host root ----
    disc_pc,          \* "idle" before the call, "returned" after it
    disc_fs,          \* the run directories under the host root: path -> contents
    disc_query,       \* [impl, current_run, required_macro_types, require_micro]
    disc_result,      \* the path returned, or NoPath
    \* ---- run.py: cmd_wip / cmd_baseline, the runs of one run type ----
    pipe_pc,          \* "idle", "running" (repetition loop), "stored" or "skipped"
    pipe_args,        \* [cmd, repetitions, run_type]
    pipe_payloads,    \* run_payloads[rt]: what run_macro / run_micro returned so far
    pipe_stored,      \* the payload written to <stem>_results.json, or NoPayload
    \* ---- compare_runs.py: processes sharing one leaderboard.json ----
    lbc_disk,         \* leaderboard.json: [exists, blocks]
    lbc_procs,        \* per process: its position, its document, its results
    lbc_saved         \* the documents of the saves that completed, in order

cmpVars == << pc, args, baseline_dir, candidate_dir, recent, baseline, candidate,
              mismatches, compared, comparisons, report, lb, lb_ret, exit_code,
              leaderboard_json, saves, clock, runs >>

runnerVars == << rpc, rargs, exe_ok, run_types, rep, ti, step, procs, files,
                 base_rc, cand_rc, warnings, launched, error, root_before >>

aggVars == << agg_pc, agg_fn, agg_in, agg_rt, agg_out >>

discVars == << disc_pc, disc_fs, disc_query, disc_result >>

pipeVars == << pipe_pc, pipe_args, pipe_payloads, pipe_stored >>

lbcVars == << lbc_disk, lbc_procs, lbc_saved >>

vars == << cmpVars, runnerVars, aggVars, discVars, pipeVars, lbcVars >>

(***************************************************************************)
(* Workload keys of compare_runs: (dataset, mode).                         *)
(***************************************************************************)
\* The key of a record that has neither dataset nor mode.
KeyUnknown == << "?", "?" >>
KeyIot == << "iot", "CSV" >>
KeyWeather == << "weather", "CSV" >>

\* The keys of the model in the order Python's sorted() gives tuples of strings.
SortedKeys == << KeyUnknown, KeyIot, KeyWeather >>

Keys == { SortedKeys[i] : i \in 1..Len(SortedKeys) }

\* sorted(S) for a set S of keys.
sorted(S) == SelectSeq(SortedKeys, LAMBDA k : k \in S)

EmptyMap == << >>

\* r.get(field, default) for a numeric field that may be missing (None).
Get(v, default) == IF v = None THEN default ELSE v

\* row.get(name, default)
Field(row, name, default) == IF name \in DOMAIN row THEN row[name] ELSE default

\* r.get(name, default) on a record r that may lack the key; a key present
\* with None reads as the default wherever the code goes on to test for None
\* or to compute with the value.
GetField(r, name, default) ==
    IF name \in DOMAIN r THEN Get(r[name], default) ELSE default

\* "not r" for a dict: true of the empty dict only.
Falsy(r) == DOMAIN r = {}

RECURSIVE load_results(_, _)
\* The loop of load_macro_results: results[(dataset, mode)] = r, last one wins.
load_results(payload, acc) ==
    IF payload = << >> THEN acc
    ELSE LET r == Head(payload)
             key == << Field(r, "dataset", "?"), Field(r, "mode", "?") >>
         IN load_results(Tail(payload),
                [k \in (DOMAIN acc) \cup {key} |-> IF k = key THEN r ELSE acc[k]])

\* load_macro_results(run_dir): {} when macro_results.json is not there.
load_macro_results(dir) ==
    IF dir.hasfile THEN load_results(dir.payload, EmptyMap) ELSE EmptyMap

(***************************************************************************)
(* Mismatch guard.                                                         *)
(***************************************************************************)
\* Mutant: the guard without "if base_rows is None or cand_rows is None: continue".
RowCountMismatchWithoutNoneCheck(base, cand) ==
    GetField(base, "num_rows", None) # GetField(cand, "num_rows", None)

\* One shared key is a mismatch: both sides give num_rows and they differ.
RowCountMismatch(base, cand) ==
    /\ GetField(base, "num_rows", None) # None
    /\ GetField(cand, "num_rows", None) # None
    /\ GetField(base, "num_rows", None) # GetField(cand, "num_rows", None)

find_row_count_mismatches(b, c) ==
    LET shared == SelectSeq(sorted((DOMAIN b) \cap (DOMAIN c)),
                            LAMBDA k : RowCountMismatch(b[k], c[k]))
    IN [i \in 1..Len(shared) |->
            << shared[i][1], shared[i][2],
               GetField(b[shared[i]], "num_rows", None),
               GetField(c[shared[i]], "num_rows", None) >>]

\* main: "if mismatches and not args.allow_mismatched_rows".
RefuseComparison(mm, a) == mm # << >> /\ ~a.allow_mismatched_rows

(***************************************************************************)
(* Regression comparator.                                                  *)
(***************************************************************************)
Abs(n) == IF n < 0 THEN -n ELSE n

RECURSIVE Gcd(_, _)
Gcd(m, n) == IF n = 0 THEN m ELSE Gcd(n, m % n)

\* The rational n/d (d # 0) in lowest terms, the sign kept on both parts as
\* given: the value of the float expression n / d without its rounding.
Fraction(n, d) ==
    LET g == Gcd(Abs(n), Abs(d))
    IN [num |-> n \div g, den |-> d \div g]

\* Mutant: the delta taken relative to the candidate value.
delta_pct_of_candidate(base_val, cand_val) ==
    IF base_val = 0 THEN [num |-> 0, den |-> 1]
    ELSE Fraction((cand_val - base_val) * 100, cand_val)

\* compare_results.delta_pct: 0 for a zero baseline, else the exact quotient
\* (cand - base) / base * 100 as num/den.
delta_pct(base_val, cand_val) ==
    IF base_val = 0 THEN [num |-> 0, den |-> 1]
    ELSE Fraction((cand_val - base_val) * 100, base_val)

\* Mutant: ">=" in place of ">".
ExceedsThresholdInclusive(delta, threshold_pct) ==
    IF delta.den > 0 THEN delta.num >= threshold_pct * delta.den
    ELSE delta.num <= threshold_pct * delta.den

\* "delta > threshold_pct" on the rational delta.
ExceedsThreshold(delta, threshold_pct) ==
    IF delta.den > 0 THEN delta.num > threshold_pct * delta.den
    ELSE delta.num < threshold_pct * delta.den

MetricNames == << "write", "read", "total", "size" >>

\* The four "if x_delta > threshold_pct: regression_fields.append(...)".
regression_fields_of(deltas, threshold_pct) ==
    SelectSeq(MetricNames, LAMBDA f : ExceedsThreshold(deltas[f], threshold_pct))

\* "regression": len(regression_fields) > 0
regression_of(fields) == Len(fields) > 0

ComparisonRow(key, base, cand, threshold_pct) ==
    LET base_w == GetField(base, "write_time_ms", 0)
        cand_w == GetField(cand, "write_time_ms", 0)
        base_r == GetField(base, "read_time_ms", 0)
        cand_r == GetField(cand, "read_time_ms", 0)
        base_total == base_w + base_r
        cand_total == cand_w + cand_r
        base_sz == GetField(base, "file_size", 0)
        cand_sz == GetField(cand, "file_size", 0)
        deltas == [f \in {"write", "read", "total", "size"} |->
                    CASE f = "write" -> delta_pct(base_w, cand_w)
                      [] f = "read"  -> delta_pct(base_r, cand_r)
                      [] f = "total" -> delta_pct(base_total, cand_total)
                      [] f = "size"  -> delta_pct(base_sz, cand_sz)]
        fields == regression_fields_of(deltas, threshold_pct)
    IN [dataset |-> key[1], mode |-> key[2],
        baseline_write_ms |-> base_w, candidate_write_ms |-> cand_w,
        write_delta_pct |-> deltas["write"],
        baseline_read_ms |-> base_r, candidate_read_ms |-> cand_r,
        read_delta_pct |-> deltas["read"],
        baseline_total_ms |-> base_total, candidate_total_ms |-> cand_total,
        total_delta_pct |-> deltas["total"],
        baseline_size |-> base_sz, candidate_size |-> cand_sz,
        size_delta_pct |-> deltas["size"],
        regression |-> regression_of(fields),
        regression_fields |-> fields]

compare_results(b, c, threshold_pct) ==
    LET all_keys == (DOMAIN b) \cup (DOMAIN c)
        both == SelectSeq(sorted(all_keys),
                          LAMBDA k : /\ k \in DOMAIN b /\ ~Falsy(b[k])
                                     /\ k \in DOMAIN c /\ ~Falsy(c[k]))
    IN [i \in 1..Len(both) |->
            ComparisonRow(both[i], b[both[i]], c[both[i]], threshold_pct)]

\* main: any(c["regression"] for c in comparisons)
has_regression(rows) == \E i \in 1..Len(rows) : rows[i].regression

\* Mutant: main returns 0 whether or not a regression was found.
FinalExitCodeAlwaysZero(rows) == 0

\* The last lines of main: 1 if a regression was found, else 0.
FinalExitCode(rows) == IF has_regression(rows) THEN 1 ELSE 0

(***************************************************************************)
(* Leaderboard store.                                                      *)
(***************************************************************************)
\* key = f"{ds}/{mode}"
LbKey(key) == key[1] \o "/" \o key[2]

EmptyLeaderboard == [updated |-> None, entries |-> EmptyMap]

\* load_leaderboard: the document if the file exists, else a fresh one.
load_leaderboard(file) ==
    IF file.exists THEN [updated |-> file.updated, entries |-> file.entries]
    ELSE EmptyLeaderboard

\* The entry update_leaderboard stores for result r.
NewEntry(key, r, total, run_dir_name, now) ==
    [dataset |-> key[1], mode |-> key[2],
     best_total_ms |-> total,
     best_write_ms |-> GetField(r, "write_time_ms", 0),
     best_read_ms |-> GetField(r, "read_time_ms", 0),
     file_size |-> GetField(r, "file_size", 0),
     num_rows |-> GetField(r, "num_rows", 0),
     run |-> run_dir_name,
     git_version |-> "unknown",
     timestamp |-> now]

\* "if total <= 0: continue"
SkipResult(total) == total <= 0

\* Mutant: without "entry is None or": a key is never created.
IsBetterThanStored(entries, k, total) ==
    k \in DOMAIN entries /\ total < entries[k].best_total_ms

\* Mutant: "<=" in place of "<".
IsNewBestOrEqual(entries, k, total) ==
    k \notin DOMAIN entries \/ total <= entries[k].best_total_ms

\* "entry is None or total < entry.get('best_total_ms', inf)"
IsNewBest(entries, k, total) ==
    k \notin DOMAIN entries \/ total < entries[k].best_total_ms

RECURSIVE update_loop(_, _, _, _, _)
\* The for loop of update_leaderboard over results.items(); st carries the
\* entries and the local flag "updated".
update_loop(st, items, results, run_dir_name, now) ==
    IF items = << >> THEN st
    ELSE LET key == Head(items)
             r == results[key]
             total == GetField(r, "write_time_ms", 0) + GetField(r, "read_time_ms", 0)
             k == LbKey(key)
             nxt == IF ~SkipResult(total) /\ IsNewBest(st.entries, k, total)
                    THEN [entries |->
                             [e \in (DOMAIN st.entries) \cup {k} |->
                                 IF e = k
                                 THEN NewEntry(key, r, total, run_dir_name, now)
                                 ELSE st.entries[e]],
                          updated |-> TRUE]
                    ELSE st
         IN update_loop(nxt, Tail(items), results, run_dir_name, now)

\* Mutant: the timestamp set without looking at the flag.
StampUpdatedAlways(old, updated, now) == now

\* "if updated: leaderboard['updated'] = datetime.now().isoformat()"
StampUpdated(old, updated, now) == IF updated THEN now ELSE old

\* update_leaderboard: the leaderboard after the call and the value returned.
update_leaderboard(leaderboard, results, run_dir_name, now) ==
    LET st == update_loop([entries |-> leaderboard.entries, updated |-> FALSE],
                          sorted(DOMAIN results), results, run_dir_name, now)
    IN [lb |-> [updated |-> StampUpdated(leaderboard.updated, st.updated, now),
                entries |-> st.entries],
        ret |-> st.updated]

\* Mutant: the leaderboard is updated only when no regression was found.
UpdateRequestedUnlessRegression(a, rows) == a.update_leaderboard /\ ~has_regression(rows)

\* main: "if args.update_leaderboard:" after the report.
UpdateRequested(a, rows) == a.update_leaderboard

\* main: "if update_leaderboard(...): save_leaderboard(...)"
SaveAfterUpdate(ret) == ret

\* save_leaderboard: json.dump of the whole document.
save_leaderboard(leaderboard) ==
    [exists |-> TRUE, updated |-> leaderboard.updated, entries |-> leaderboard.entries]

NoFile == [exists |-> FALSE, updated |-> None, entries |-> EmptyMap]

(***************************************************************************)
(* compare_runs.main, one action per stretch of code between two effects.  *)
(***************************************************************************)
NoArgs == [leaderboard |-> FALSE, latest |-> FALSE, dirs |-> 0, threshold |-> 5,
           update_leaderboard |-> FALSE, allow_mismatched_rows |-> FALSE]

NoDir == [exists |-> FALSE, hasfile |-> FALSE, payload |-> << >>]

\* What main returns before it loads anything, or None when it goes on:
\* 0 in leaderboard mode, 1 when the two directories cannot be determined or
\* one of them does not exist.
EarlyExitCode(a, rc, bdir, cdir) ==
    IF a.leaderboard THEN 0
    ELSE IF a.latest /\ rc < 2 THEN 1
    ELSE IF ~a.latest /\ a.dirs # 2 THEN 1
    ELSE IF ~bdir.exists THEN 1
    ELSE IF ~cdir.exists THEN 1
    ELSE None

\* "if not baseline: return 1" and "if not candidate: return 1"
NoResultsExitCode(b, c) ==
    IF b = EmptyMap THEN 1
    ELSE IF c = EmptyMap THEN 1
    ELSE None

\* main up to the two load_macro_results calls and the checks after them.
MainStart(a, rc, bdir, cdir) ==
    /\ pc = "idle"
    /\ (a.latest /\ rc >= 2) => (bdir.exists /\ cdir.exists)
    /\ args' = a
    /\ recent' = rc
    /\ baseline_dir' = bdir
    /\ candidate_dir' = cdir
    /\ runs' = runs + 1
    /\ clock' = clock + 1
    /\ LET early == EarlyExitCode(a, rc, bdir, cdir)
           b == load_macro_results(bdir)
           c == load_macro_results(cdir)
       IN IF early # None
          THEN /\ exit_code' = early
               /\ pc' = "exited"
               /\ lb' = IF a.leaderboard THEN load_leaderboard(leaderboard_json) ELSE lb
               /\ UNCHANGED << baseline, candidate,
                    runnerVars, aggVars, discVars, pipeVars, lbcVars >>
          ELSE /\ baseline' = b
               /\ candidate' = c
               /\ lb' = lb
               /\ IF NoResultsExitCode(b, c) # None
                  THEN exit_code' = NoResultsExitCode(b, c) /\ pc' = "exited"
                  ELSE exit_code' = exit_code /\ pc' = "loaded"
    /\ UNCHANGED << mismatches, compared, comparisons, report, lb_ret,
                    leaderboard_json, saves,
                    runnerVars, aggVars, discVars, pipeVars, lbcVars >>

\* main: the mismatch guard.
MainGuard ==
    /\ pc = "loaded"
    /\ mismatches' = find_row_count_mismatches(baseline, candidate)
    /\ IF RefuseComparison(mismatches', args)
       THEN exit_code' = 2 /\ pc' = "exited"
       ELSE exit_code' = exit_code /\ pc' = "guarded"
    /\ UNCHANGED << args, baseline_dir, candidate_dir, recent, baseline, candidate,
                    compared, comparisons, report, lb, lb_ret, leaderboard_json,
                    saves, clock, runs,
                    runnerVars, aggVars, discVars, pipeVars, lbcVars >>

\* main: compare_results and the report (printed or written to --output).
MainCompare ==
    /\ pc = "guarded"
    /\ comparisons' = compare_results(baseline, candidate, args.threshold)
    /\ compared' = TRUE
    /\ report' = TRUE
    /\ pc' = IF UpdateRequested(args, comparisons') THEN "lb_load" ELSE "return"
    /\ UNCHANGED << args, baseline_dir, candidate_dir, recent, baseline, candidate,
                    mismatches, lb, lb_ret, exit_code, leaderboard_json, saves,
                    clock, runs,
                    runnerVars, aggVars, discVars, pipeVars, lbcVars >>

\* main: lb = load_leaderboard(lb_dir)
MainLoadLeaderboard ==
    /\ pc = "lb_load"
    /\ lb' = load_leaderboard(leaderboard_json)
    /\ pc' = "lb_update"
    /\ UNCHANGED << args, baseline_dir, candidate_dir, recent, baseline, candidate,
                    mismatches, compared, comparisons, report, lb_ret, exit_code,
                    leaderboard_json, saves, clock, runs,
                    runnerVars, aggVars, discVars, pipeVars, lbcVars >>

\* main: update_leaderboard(lb, candidate, candidate_dir.name, git_ver)
MainUpdateLeaderboard ==
    /\ pc = "lb_update"
    /\ LET u == update_leaderboard(lb, candidate, runs, clock)
       IN /\ lb' = u.lb
          /\ lb_ret' = u.ret
          /\ pc' = IF SaveAfterUpdate(u.ret) THEN "lb_save" ELSE "return"
    /\ UNCHANGED << args, baseline_dir, candidate_dir, recent, baseline, candidate,
                    mismatches, compared, comparisons, report, exit_code,
                    leaderboard_json, saves, clock, runs,
                    runnerVars, aggVars, discVars, pipeVars, lbcVars >>

\* main: save_leaderboard(lb_dir, lb)
MainSaveLeaderboard ==
    /\ pc = "lb_save"
    /\ leaderboard_json' = save_leaderboard(lb)
    /\ saves' = saves + 1
    /\ pc' = "return"
    /\ UNCHANGED << args, baseline_dir, candidate_dir, recent, baseline, candidate,
                    mismatches, compared, comparisons, report, lb, lb_ret, exit_code,
                    clock, runs,
                    runnerVars, aggVars, discVars, pipeVars, lbcVars >>

\* main: the exit code after the comparison.
MainReturn ==
    /\ pc = "return"
    /\ exit_code' = FinalExitCode(comparisons)
    /\ pc' = "exited"
    /\ UNCHANGED << args, baseline_dir, candidate_dir, recent, baseline, candidate,
                    mismatches, compared, comparisons, report, lb, lb_ret,
                    leaderboard_json, saves, clock, runs,
                    runnerVars, aggVars, discVars, pipeVars, lbcVars >>

\* The process is gone and the entry point is invoked again: only the
\* persisted document, the clock and the count of invocations remain.
MainRestart ==
    /\ pc = "exited"
    /\ runs < MaxRuns
    /\ pc' = "idle"
    /\ args' = NoArgs
    /\ baseline_dir' = NoDir
    /\ candidate_dir' = NoDir
    /\ recent' = 0
    /\ baseline' = EmptyMap
    /\ candidate' = EmptyMap
    /\ mismatches' = << >>
    /\ compared' = FALSE
    /\ comparisons' = << >>
    /\ report' = FALSE
    /\ lb' = EmptyLeaderboard
    /\ lb_ret' = FALSE
    /\ exit_code' = None
    /\ UNCHANGED << leaderboard_json, saves, clock, runs,
                    runnerVars, aggVars, discVars, pipeVars, lbcVars >>

\* The state of a process that has not started, over a persisted document.
InitMain(file) ==
    /\ pc = "idle"
    /\ args = NoArgs
    /\ baseline_dir = NoDir
    /\ candidate_dir = NoDir
    /\ recent = 0
    /\ baseline = EmptyMap
    /\ candidate = EmptyMap
    /\ mismatches = << >>
    /\ compared = FALSE
    /\ comparisons = << >>
    /\ report = FALSE
    /\ lb = EmptyLeaderboard
    /\ lb_ret = FALSE
    /\ exit_code = None
    /\ leaderboard_json = file
    /\ saves = 0
    /\ clock = 0
    /\ runs = 0

(***************************************************************************)
(* Interleaved pair runner: run_interleaved_pairs.py.                      *)
(***************************************************************************)
AllowedTypes == { "MICRO", "MACRO-SMALL", "MACRO-LARGE" }

RECURSIVE dedup(_, _)
\* [t for t in items if not (t in seen or seen.add(t))]
dedup(items, seen) ==
    IF items = << >> THEN << >>
    ELSE IF Head(items) \in seen THEN dedup(Tail(items), seen)
    ELSE << Head(items) >> \o dedup(Tail(items), seen \cup {Head(items)})

\* parse_types raises ValueError for an empty list or an unsupported type.
parse_types_raises(items) ==
    items = << >> \/ \E i \in 1..Len(items) : items[i] \notin AllowedTypes

parse_types(items) == dedup(items, {})

\* The file stem of a run type inside a pair directory.
Stem(run_type) ==
    IF run_type = "MICRO" THEN "micro"
    ELSE IF run_type = "MACRO-SMALL" THEN "macro_small"
    ELSE "macro_large"

\* baseline_root = root / baseline_label, candidate_root = root / candidate_label
Label(a, side) == IF side = "baseline" THEN a.baseline_label ELSE a.candidate_label

\* base_out / cand_out: <root>/<label>/pair<NN>/<stem>_results.json
OutPath(a, id) == << Label(a, id[3]), id[1], Stem(id[2]) >>

\* Mutant: the logs of every pair go to the directory of pair 1.
LogPathShared(a, id, stream) == << Label(a, id[3]), 1, Stem(id[2]) \o "_" \o stream >>

\* <root>/<label>/pair<NN>/<stem>_stdout.log and <stem>_stderr.log
LogPath(a, id, stream) == << Label(a, id[3]), id[1], Stem(id[2]) \o "_" \o stream >>

\* The four log files of the unit (r, t).
LogPaths(a, r, t) ==
    { LogPath(a, << r, t, side >>, stream) :
        side \in { "baseline", "candidate" }, stream \in { "stdout", "stderr" } }

\* path.open("w") on each of paths: created, or truncated to nothing.
open_logs(fs, paths) ==
    [f \in (DOMAIN fs) \cup paths |-> IF f \in paths THEN "empty" ELSE fs[f]]

\* Mutant: the baseline is waited for before the candidate is started.
PairStepsSequential ==
    << "open_logs", "popen_baseline", "wait_baseline", "popen_candidate", "wait_candidate" >>

\* The statements of _run_parallel_pair.
PairSteps ==
    << "open_logs", "popen_baseline", "popen_candidate", "wait_baseline", "wait_candidate" >>

Sides == { "baseline", "candidate" }

NoRunnerArgs == [repetitions |-> 0, types |-> << >>,
                 baseline_label |-> "base", candidate_label |-> "WIP"]

\* output_file.exists() and output_file.stat().st_size > 0
HasUsableOutput(fs, path) == path \in DOMAIN fs /\ fs[path] = "nonempty"

\* Mutant: a non-zero exit code raises even when there is usable output.
require_success(code, fs, path) ==
    IF HasUsableOutput(fs, path) /\ code = 0 THEN "ok" ELSE "raise"

\* Mutant: exit code 0 is accepted without a usable result file.
require_output_or_zero(code, fs, path) ==
    IF HasUsableOutput(fs, path)
    THEN (IF code # 0 THEN "warn" ELSE "ok")
    ELSE (IF code = 0 THEN "ok" ELSE "raise")

\* _require_output_or_success: "ok", "warn" (ok after a WARNING) or "raise".
require_output_or_success(code, fs, path) ==
    IF HasUsableOutput(fs, path)
    THEN (IF code # 0 THEN "warn" ELSE "ok")
    ELSE "raise"

\* Mutant: the two loops nested the other way round.
NextUnitTypesOuter(r, t, reps, types) ==
    IF r < reps THEN << r + 1, t >>
    ELSE IF t < Len(types) THEN << 1, t + 1 >>
    ELSE << 0, 0 >>

\* The unit after (r, t) in "for rep ...: for run_type in run_types",
\* or << 0, 0 >> after the last one.
NextUnit(r, t, reps, types) ==
    IF t < Len(types) THEN << r, t + 1 >>
    ELSE IF r < reps THEN << r + 1, 1 >>
    ELSE << 0, 0 >>

CurrentId(side) == << rep, run_types[ti], side >>

\* main up to parse_types: ValueError for --repetitions < 1 or bad --types.
RunnerStart(a, exes) ==
    /\ rpc = "init"
    /\ rargs' = a
    /\ exe_ok' = exes
    /\ IF a.repetitions < 1 \/ parse_types_raises(a.types)
       THEN /\ rpc' = "failed"
            /\ error' = "ValueError"
            /\ run_types' = run_types
       ELSE /\ rpc' = "clean"
            /\ error' = error
            /\ run_types' = parse_types(a.types)
    /\ UNCHANGED << rep, ti, step, procs, files, base_rc, cand_rc, warnings,
                    launched, root_before,
                    cmpVars, aggVars, discVars, pipeVars, lbcVars >>

\* Mutant: only the directories of the two labels are deleted.
rmtree_label_roots(fs, a) ==
    [f \in { g \in DOMAIN fs : g[1] \notin { a.baseline_label, a.candidate_label } } |->
        fs[f]]

\* shutil.rmtree(root), then mkdir of the two label directories: the root
\* holds no file.
rmtree_and_mkdir(fs, a) == EmptyMap

\* "if root.exists(): shutil.rmtree(root)" and the two mkdir calls.
RunnerCleanRoot ==
    /\ rpc = "clean"
    /\ files' = rmtree_and_mkdir(files, rargs)
    /\ rpc' = "check_exe"
    /\ UNCHANGED << rargs, exe_ok, run_types, rep, ti, step, procs, base_rc, cand_rc,
                    warnings, launched, error, root_before,
                    cmpVars, aggVars, discVars, pipeVars, lbcVars >>

\* The loop over the four executables: FileNotFoundError, or the first unit.
RunnerCheckExecutables ==
    /\ rpc = "check_exe"
    /\ IF exe_ok
       THEN /\ rpc' = "pair"
            /\ rep' = 1
            /\ ti' = 1
            /\ step' = 1
            /\ error' = error
       ELSE /\ rpc' = "failed"
            /\ error' = "FileNotFoundError"
            /\ UNCHANGED << rep, ti, step >>
    /\ UNCHANGED << rargs, exe_ok, run_types, procs, files, base_rc, cand_rc,
                    warnings, launched, root_before,
                    cmpVars, aggVars, discVars, pipeVars, lbcVars >>

\* After the last statement of _run_parallel_pair main checks the outputs.
AfterStep(s) == IF s < Len(PairSteps) THEN "pair" ELSE "require_baseline"

\* _run_parallel_pair: the with statement opens the four log files.
RunnerOpenLogs ==
    /\ rpc = "pair"
    /\ step <= Len(PairSteps)
    /\ PairSteps[step] = "open_logs"
    /\ files' = open_logs(files, LogPaths(rargs, rep, run_types[ti]))
    /\ step' = step + 1
    /\ rpc' = AfterStep(step)
    /\ UNCHANGED << rargs, exe_ok, run_types, rep, ti, procs, base_rc, cand_rc,
                    warnings, launched, error, root_before,
                    cmpVars, aggVars, discVars, pipeVars, lbcVars >>

\* subprocess.Popen(cmd, ...) succeeds: the child runs.
RunnerPopen(side) ==
    /\ rpc = "pair"
    /\ step <= Len(PairSteps)
    /\ PairSteps[step] = "popen_" \o side
    /\ LET id == CurrentId(side)
       IN /\ procs' = [p \in (DOMAIN procs) \cup {id} |->
                          IF p = id THEN [state |-> "running", rc |-> 0] ELSE procs[p]]
          /\ launched' = Append(launched, id)
    /\ step' = step + 1
    /\ rpc' = AfterStep(step)
    /\ UNCHANGED << rargs, exe_ok, run_types, rep, ti, files, base_rc, cand_rc,
                    warnings, error, root_before,
                    cmpVars, aggVars, discVars, pipeVars, lbcVars >>

\* subprocess.Popen raises OSError: the exception leaves main.
RunnerPopenFails(side) ==
    /\ rpc = "pair"
    /\ step <= Len(PairSteps)
    /\ PairSteps[step] = "popen_" \o side
    /\ rpc' = "failed"
    /\ error' = "OSError"
    /\ UNCHANGED << rargs, exe_ok, run_types, rep, ti, step, procs, files, base_rc,
                    cand_rc, warnings, launched, root_before,
                    cmpVars, aggVars, discVars, pipeVars, lbcVars >>

\* p.wait() returns once the child has exited; it has no timeout.
RunnerWait(side) ==
    /\ rpc = "pair"
    /\ step <= Len(PairSteps)
    /\ PairSteps[step] = "wait_" \o side
    /\ LET id == CurrentId(side)
       IN /\ id \in DOMAIN procs
          /\ procs[id].state = "exited"
          /\ IF side = "baseline"
             THEN base_rc' = procs[id].rc /\ cand_rc' = cand_rc
             ELSE cand_rc' = procs[id].rc /\ base_rc' = base_rc
          /\ procs' = [procs EXCEPT ![id] = [state |-> "reaped", rc |-> 0]]
    /\ step' = step + 1
    /\ rpc' = AfterStep(step)
    /\ UNCHANGED << rargs, exe_ok, run_types, rep, ti, files, warnings, launched,
                    error, root_before,
                    cmpVars, aggVars, discVars, pipeVars, lbcVars >>

\* _require_output_or_success(base_rc, base_out, ...)
RunnerRequireBaseline ==
    /\ rpc = "require_baseline"
    /\ LET res == require_output_or_success(base_rc, files,
                                            OutPath(rargs, CurrentId("baseline")))
       IN /\ rpc' = IF res = "raise" THEN "failed" ELSE "require_candidate"
          /\ error' = IF res = "raise" THEN "RuntimeError" ELSE error
          /\ warnings' = IF res = "warn" THEN warnings + 1 ELSE warnings
    /\ UNCHANGED << rargs, exe_ok, run_types, rep, ti, step, procs, files, base_rc,
                    cand_rc, launched, root_before,
                    cmpVars, aggVars, discVars, pipeVars, lbcVars >>

\* _require_output_or_success(cand_rc, cand_out, ...), then the next unit.
RunnerRequireCandidate ==
    /\ rpc = "require_candidate"
    /\ LET res == require_output_or_success(cand_rc, files,
                                            OutPath(rargs, CurrentId("candidate")))
           nxt == NextUnit(rep, ti, rargs.repetitions, run_types)
       IN /\ warnings' = IF res = "warn" THEN warnings + 1 ELSE warnings
          /\ IF res = "raise"
             THEN /\ rpc' = "failed"
                  /\ error' = "RuntimeError"
                  /\ UNCHANGED << rep, ti, step, base_rc, cand_rc >>
             ELSE /\ error' = error
                  /\ base_rc' = None
                  /\ cand_rc' = None
                  /\ IF nxt = << 0, 0 >>
                     THEN rpc' = "done" /\ UNCHANGED << rep, ti, step >>
                     ELSE /\ rpc' = "pair"
                          /\ rep' = nxt[1]
                          /\ ti' = nxt[2]
                          /\ step' = 1
    /\ UNCHANGED << rargs, exe_ok, run_types, procs, files, launched, root_before,
                    cmpVars, aggVars, discVars, pipeVars, lbcVars >>

\* A running benchmark creates its result file, then fills it.
ChildWrite(id) ==
    /\ id \in DOMAIN procs
    /\ procs[id].state = "running"
    /\ LET path == OutPath(rargs, id)
       IN /\ ~HasUsableOutput(files, path)
          /\ files' = [f \in (DOMAIN files) \cup {path} |->
                          IF f = path
                          THEN (IF path \in DOMAIN files THEN "nonempty" ELSE "empty")
                          ELSE files[f]]
    /\ UNCHANGED << rpc, rargs, exe_ok, run_types, rep, ti, step, procs, base_rc,
                    cand_rc, warnings, launched, error, root_before,
                    cmpVars, aggVars, discVars, pipeVars, lbcVars >>

\* What the child printed reaches its stdout log (the block-buffered stdout
\* of a process writing to a file is flushed when it exits).
flush_stdout(fs, path) ==
    [f \in (DOMAIN fs) \cup { path } |-> IF f = path THEN "nonempty" ELSE fs[f]]

\* A running benchmark exits with code rc.
ChildExit(id, rc) ==
    /\ id \in DOMAIN procs
    /\ procs[id].state = "running"
    /\ procs' = [procs EXCEPT ![id] = [state |-> "exited", rc |-> rc]]
    /\ files' = flush_stdout(files, LogPath(rargs, id, "stdout"))
    /\ UNCHANGED << rpc, rargs, exe_ok, run_types, rep, ti, step, base_rc,
                    cand_rc, warnings, launched, error, root_before,
                    cmpVars, aggVars, discVars, pipeVars, lbcVars >>

\* A running benchmark gets stuck: it will never exit on its own.
ChildHangs(id) ==
    /\ id \in DOMAIN procs
    /\ procs[id].state = "running"
    /\ procs' = [procs EXCEPT ![id] = [state |-> "hung", rc |-> 0]]
    /\ UNCHANGED << rpc, rargs, exe_ok, run_types, rep, ti, step, files, base_rc,
                    cand_rc, warnings, launched, error, root_before,
                    cmpVars, aggVars, discVars, pipeVars, lbcVars >>

\* The runner before it starts, over a results root holding the files fs.
InitRunner(fs) ==
    /\ rpc = "init"
    /\ rargs = NoRunnerArgs
    /\ exe_ok = FALSE
    /\ run_types = << >>
    /\ rep = 0
    /\ ti = 0
    /\ step = 0
    /\ procs = EmptyMap
    /\ files = fs
    /\ root_before = fs
    /\ base_rc = None
    /\ cand_rc = None
    /\ warnings = 0
    /\ launched = << >>
    /\ error = "none"

\* What aggregate_*_payloads returns for an empty list (Python None).
NoPayload == [none |-> TRUE]

\* The aggregator before it is called.
InitAgg ==
    /\ agg_pc = "idle"
    /\ agg_fn = "none"
    /\ agg_in = << >>
    /\ agg_rt = ""
    /\ agg_out = NoPayload

\* What latest_clean_run returns when it finds nothing (Python None).
NoPath == << >>

\* Baseline discovery before it is called, over the run directories fs.
InitDisc(fs) ==
    /\ disc_pc = "idle"
    /\ disc_fs = fs
    /\ disc_query = [impl |-> "lib", current_run |-> NoPath,
                     required_macro_types |-> {}, require_micro |-> FALSE]
    /\ disc_result = NoPath

\* The pipeline of run.py before it runs.
InitPipe ==
    /\ pipe_pc = "idle"
    /\ pipe_args = [cmd |-> "wip", repetitions |-> 1, run_type |-> "MACRO-SMALL"]
    /\ pipe_payloads = << >>
    /\ pipe_stored = NoPayload

\* No process shares the leaderboard file yet.
InitLbc ==
    /\ lbc_disk = [exists |-> FALSE, blocks |-> << >>]
    /\ lbc_procs = EmptyMap
    /\ lbc_saved = << >>

(***************************************************************************)
(* Inputs of the comparison entry point.                                   *)
(***************************************************************************)
Rec(ds, w, r, sz, n) ==
    [dataset |-> ds, mode |-> "CSV", write_time_ms |-> w, read_time_ms |-> r,
     file_size |-> sz, num_rows |-> n]

\* Payloads: the records of macro_results.json, at most one per key, in key order.
PayloadsOf(iot, weather) ==
    { << >> } \cup { << a >> : a \in iot } \cup { << w >> : w \in weather }
              \cup { << a, w >> : a \in iot, w \in weather }

\* Run directories: missing, without macro_results.json, or with a payload.
DirsOf(payloads) ==
    { NoDir, [exists |-> TRUE, hasfile |-> FALSE, payload |-> << >>] }
    \cup { [exists |-> TRUE, hasfile |-> TRUE, payload |-> p] : p \in payloads }

Thresholds == { 5, 20 }

CmpBaselineIot == { Rec("iot", 100, 50, 1000000, n) : n \in { None, 1000 } }

CmpCandidateIot == { Rec("iot", 100, 50, 1000000, n) : n \in { 999, 1000 } }

CmpBaselineWeather ==
    { Rec("weather", w, r, sz, n) :
        w \in { 0, 100 }, r \in { 0, 50 }, sz \in { 0, 1000000 }, n \in { None, 10000 } }

CmpCandidateWeather ==
    { Rec("weather", w, r, sz, n) :
        w \in { 100, 105, 120 }, r \in { 50, 60 }, sz \in { 1000000, 1100000 },
        n \in { None, 9999, 10000 } }

\* Command lines: two directories given, and the modes that stop early.
CmpArgs ==
    [leaderboard : { FALSE }, latest : { FALSE }, dirs : { 2 }, threshold : Thresholds,
     update_leaderboard : BOOLEAN, allow_mismatched_rows : BOOLEAN]
    \cup [leaderboard : { TRUE }, latest : { FALSE }, dirs : { 0 }, threshold : { 5 },
          update_leaderboard : { TRUE }, allow_mismatched_rows : { FALSE }]
    \cup [leaderboard : { FALSE }, latest : { TRUE }, dirs : { 0 }, threshold : { 5 },
          update_leaderboard : { TRUE }, allow_mismatched_rows : { FALSE }]
    \cup [leaderboard : { FALSE }, latest : { FALSE }, dirs : { 0, 1 }, threshold : { 5 },
          update_leaderboard : { TRUE }, allow_mismatched_rows : { FALSE }]

\* A document an earlier invocation (run 0, at time 0) wrote: weather/CSV at 110 + 50.
StoredLeaderboard ==
    [exists |-> TRUE, updated |-> 0,
     entries |-> [k \in { LbKey(KeyWeather) } |->
                    NewEntry(KeyWeather, Rec("weather", 110, 50, 1000000, 10000),
                             160, 0, 0)]]

InitCompare ==
    /\ InitMain(StoredLeaderboard)
    /\ InitRunner(EmptyMap)
    /\ InitAgg
    /\ InitDisc(EmptyMap)
    /\ InitPipe
    /\ InitLbc

\* One invocation of the comparison entry point.
NextCompare ==
    \/ /\ pc = "idle"
       /\ \E a \in CmpArgs, rc \in { 1, 2 },
          bdir \in DirsOf(PayloadsOf(CmpBaselineIot, CmpBaselineWeather)),
          cdir \in DirsOf(PayloadsOf(CmpCandidateIot, CmpCandidateWeather)) :
              MainStart(a, rc, bdir, cdir)
    \/ MainGuard
    \/ MainCompare
    \/ MainLoadLeaderboard
    \/ MainUpdateLeaderboard
    \/ MainSaveLeaderboard
    \/ MainReturn

SpecCompare == InitCompare /\ [][NextCompare]_vars

(***************************************************************************)
(* Properties of the comparison entry point (SpecCompare).                 *)
(***************************************************************************)
\* Some key is on both sides, both records give num_rows, and the values differ.
SharedRowCountsDiffer ==
    \E k \in (DOMAIN baseline) \cap (DOMAIN candidate) :
        /\ baseline[k].num_rows # None
        /\ candidate[k].num_rows # None
        /\ baseline[k].num_rows # candidate[k].num_rows

\* Some key is on both sides and one of the two records lacks num_rows.
SharedKeyLacksRowCount ==
    \E k \in (DOMAIN baseline) \cap (DOMAIN candidate) :
        baseline[k].num_rows = None \/ candidate[k].num_rows = None

\* C1: when baseline and candidate share a key whose num_rows are both given
\* and differ, and --allow-mismatched-rows was not passed, main returns 2,
\* compare_results is never evaluated, there is no ComparisonRow and no report;
\* a refusal happens only for such a key (never for a key where a side lacks
\* num_rows); with the flag passed main goes on to the comparison and returns
\* 0 or 1, never 2.
C1_MismatchGuardRefuses ==
    /\ (SharedRowCountsDiffer /\ ~args.allow_mismatched_rows) =>
          /\ ~compared
          /\ comparisons = << >>
          /\ ~report
          /\ pc \in { "loaded", "exited" }
          /\ (pc = "exited" => exit_code = 2)
    /\ exit_code = 2 => (SharedRowCountsDiffer /\ ~args.allow_mismatched_rows)
    /\ (SharedRowCountsDiffer /\ args.allow_mismatched_rows /\ pc = "exited") =>
          (compared /\ report /\ exit_code \in { 0, 1 })

\* C1 witness: a refused comparison in which another shared key lacks num_rows.
C1_Witness ==
    /\ pc = "exited"
    /\ exit_code = 2
    /\ ~compared
    /\ SharedRowCountsDiffer
    /\ SharedKeyLacksRowCount

\* main stopped before the comparison on an input error.
StoppedOnInputError ==
    /\ ~compared
    /\ ~args.leaderboard
    /\ \/ args.latest /\ recent < 2
       \/ ~args.latest /\ args.dirs # 2
       \/ ~baseline_dir.exists
       \/ ~candidate_dir.exists
       \/ baseline = EmptyMap
       \/ candidate = EmptyMap

SomeRowRegressed == \E i \in 1..Len(comparisons) : comparisons[i].regression

DeltaAbove(delta, t) == delta.den > 0 /\ delta.num > t * delta.den

RowDelta(row, f) ==
    CASE f = "write" -> row.write_delta_pct
      [] f = "read"  -> row.read_delta_pct
      [] f = "total" -> row.total_delta_pct
      [] f = "size"  -> row.size_delta_pct

InFields(row, f) == \E j \in 1..Len(row.regression_fields) : row.regression_fields[j] = f

\* C3: in every ComparisonRow, regression_fields holds exactly the metrics
\* among write, read, total, size whose delta is strictly above the threshold
\* (each at most once), and regression is true iff regression_fields is not
\* empty.
C3_RegressionClassification ==
    \A i \in 1..Len(comparisons) :
        LET row == comparisons[i]
        IN /\ \A f \in { "write", "read", "total", "size" } :
                  InFields(row, f) <=> DeltaAbove(RowDelta(row, f), args.threshold)
           /\ \A j \in 1..Len(row.regression_fields) :
                  /\ row.regression_fields[j] \in { "write", "read", "total", "size" }
                  /\ \A m \in 1..Len(row.regression_fields) :
                        row.regression_fields[m] = row.regression_fields[j] => m = j
           /\ row.regression <=> row.regression_fields # << >>

\* C3 witness: a row whose write delta equals the threshold and is not flagged,
\* while its read delta is above the threshold and is flagged.
C3_Witness ==
    \E i \in 1..Len(comparisons) :
        LET row == comparisons[i]
        IN /\ row.write_delta_pct.num = args.threshold * row.write_delta_pct.den
           /\ row.baseline_write_ms > 0
           /\ ~InFields(row, "write")
           /\ InFields(row, "read")
           /\ row.regression

\* delta = (c - b) / b * 100 for b # 0, and delta = 0 for b = 0.
IsDeltaOf(delta, b, c) ==
    IF b = 0 THEN delta.num = 0 /\ delta.den # 0
    ELSE delta.den # 0 /\ delta.num * b = (c - b) * 100 * delta.den

\* The end-to-end scenario of the specification, under the default threshold.
ScenarioLoaded ==
    /\ KeyWeather \in (DOMAIN baseline) \cap (DOMAIN candidate)
    /\ baseline[KeyWeather] = Rec("weather", 100, 50, 1000000, 10000)
    /\ candidate[KeyWeather] = Rec("weather", 120, 50, 1000000, 10000)
    /\ args.threshold = 5

\* C4: in every row the four deltas are (candidate - baseline) / baseline * 100
\* of write, read, total = write + read and size, and 0 when the baseline value
\* is 0, in which case the metric is not flagged; the scenario gives
\* write_delta_pct = 20, total_delta_pct = 2000/150, regression = true,
\* regression_fields = (write, total) and exit code 1.
C4_DeltaValues ==
    /\ \A i \in 1..Len(comparisons) :
          LET row == comparisons[i]
              k == << row.dataset, row.mode >>
              b == baseline[k]
              c == candidate[k]
          IN /\ IsDeltaOf(row.write_delta_pct, b.write_time_ms, c.write_time_ms)
             /\ IsDeltaOf(row.read_delta_pct, b.read_time_ms, c.read_time_ms)
             /\ IsDeltaOf(row.total_delta_pct, b.write_time_ms + b.read_time_ms,
                          c.write_time_ms + c.read_time_ms)
             /\ IsDeltaOf(row.size_delta_pct, b.file_size, c.file_size)
             /\ b.write_time_ms = 0 => ~InFields(row, "write")
             /\ b.read_time_ms = 0 => ~InFields(row, "read")
             /\ b.write_time_ms + b.read_time_ms = 0 => ~InFields(row, "total")
             /\ b.file_size = 0 => ~InFields(row, "size")
    /\ (ScenarioLoaded /\ compared) =>
          \E i \in 1..Len(comparisons) :
              LET row == comparisons[i]
              IN /\ row.dataset = "weather"
                 /\ row.write_delta_pct.num = 20 * row.write_delta_pct.den
                 /\ row.total_delta_pct.num * 150 = 2000 * row.total_delta_pct.den
                 /\ row.regression
                 /\ row.regression_fields = << "write", "total" >>
    /\ (ScenarioLoaded /\ compared /\ pc = "exited") => exit_code = 1

\* C4 witness: the scenario has run to its exit code.
C4_Witness ==
    /\ ScenarioLoaded
    /\ compared
    /\ pc = "exited"
    /\ exit_code = 1
    /\ Len(comparisons) = 1

\* C29: an invocation that refuses the comparison (exit code 2) or stops on an
\* input error exits with the persisted leaderboard as it found it, also under
\* --update-leaderboard; the document is loaded for an update and written only
\* after the comparison was computed, and once it was computed with
\* --update-leaderboard the store is loaded and updated from the candidate
\* whether or not a row regressed.  (The display mode --leaderboard prints the
\* document without comparing and never writes it.)
C29_LeaderboardAfterComparison ==
    [][ /\ (pc' = "exited" /\ (exit_code' = 2 \/ StoppedOnInputError')) =>
              (leaderboard_json' = StoredLeaderboard /\ saves' = 0 /\ ~compared')
        /\ (leaderboard_json' # leaderboard_json \/ saves' # saves) =>
              (compared /\ args.update_leaderboard /\ pc = "lb_save")
        /\ (lb' # lb /\ ~args'.leaderboard) =>
              (compared /\ args.update_leaderboard)
        /\ pc = "guarded" =>
              /\ compared'
              /\ args.update_leaderboard => pc' = "lb_load"
        /\ pc = "lb_load" => (lb' = load_leaderboard(leaderboard_json) /\ pc' = "lb_update")
        /\ pc = "lb_update" => lb' = update_leaderboard(lb, candidate, runs, clock).lb
      ]_vars

\* C29 witness: an invocation with --update-leaderboard found a regression,
\* wrote a new best to the leaderboard and exited with code 1.
C29_Witness ==
    /\ pc = "exited"
    /\ exit_code = 1
    /\ args.update_leaderboard
    /\ SomeRowRegressed
    /\ saves = 1
    /\ leaderboard_json # StoredLeaderboard

(***************************************************************************)
(* Repeated, serialized invocations over one persisted leaderboard.        *)
(***************************************************************************)
LbBaseline ==
    << Rec("iot", 100, 50, 1000000, 1000), Rec("weather", 100, 50, 1000000, 10000) >>

LbCandidateIot ==
    { Rec("iot", w, r, 1000000, 1000) : w \in { 0, 80, 100 }, r \in { 0, 50 } }

LbCandidateWeather == { Rec("weather", w, 50, 1000000, 10000) : w \in { 90, 100 } }

LbArgs ==
    [leaderboard : { FALSE }, latest : { FALSE }, dirs : { 2 }, threshold : { 5 },
     update_leaderboard : BOOLEAN, allow_mismatched_rows : { FALSE }]

InitLeaderboard ==
    /\ InitMain(NoFile)
    /\ InitRunner(EmptyMap)
    /\ InitAgg
    /\ InitDisc(EmptyMap)
    /\ InitPipe
    /\ InitLbc

NextLeaderboard ==
    \/ /\ pc = "idle"
       /\ \E a \in LbArgs,
             cdir \in DirsOf(PayloadsOf(LbCandidateIot, LbCandidateWeather)) :
               MainStart(a, 2, [exists |-> TRUE, hasfile |-> TRUE, payload |-> LbBaseline],
                         cdir)
    \/ MainGuard
    \/ MainCompare
    \/ MainLoadLeaderboard
    \/ MainUpdateLeaderboard
    \/ MainSaveLeaderboard
    \/ MainReturn
    \/ MainRestart

SpecLeaderboard == InitLeaderboard /\ [][NextLeaderboard]_vars

(***************************************************************************)
(* Properties of the leaderboard store (SpecLeaderboard).                  *)
(***************************************************************************)
\* write_time_ms + read_time_ms of the candidate's result for key.
SuppliedTotal(key) == candidate[key].write_time_ms + candidate[key].read_time_ms

\* From entries old to entries new: no entry is removed, no best_total_ms
\* increases, and an entry is changed only into one whose best_total_ms is
\* strictly lower and is the total of a supplied result for its key.
EntriesOnlyImprove(old, new) ==
    \A k \in DOMAIN old :
        /\ k \in DOMAIN new
        /\ new[k].best_total_ms <= old[k].best_total_ms
        /\ new[k] # old[k] =>
              /\ new[k].best_total_ms < old[k].best_total_ms
              /\ \E key \in DOMAIN candidate :
                    /\ key[1] \o "/" \o key[2] = k
                    /\ SuppliedTotal(key) = new[k].best_total_ms

\* C5: over any sequence of serialized invocations, in the store handed to
\* update_leaderboard and in the persisted document, no entry is ever removed,
\* no best_total_ms ever increases, and an entry is replaced only by a supplied
\* result whose total is strictly lower than the stored best_total_ms.
C5_LeaderboardMonotonic ==
    [][ /\ EntriesOnlyImprove(leaderboard_json.entries, leaderboard_json.entries')
        /\ pc = "lb_update" => EntriesOnlyImprove(lb.entries, lb.entries')
      ]_vars

\* C5 witness: the store about to be saved holds an entry with a lower
\* best_total_ms than the persisted one and an entry left as it was after an
\* equal total was supplied.
C5_Witness ==
    /\ pc = "lb_save"
    /\ \E k \in DOMAIN leaderboard_json.entries :
          lb.entries[k].best_total_ms < leaderboard_json.entries[k].best_total_ms
    /\ \E key \in DOMAIN candidate :
          LET k == key[1] \o "/" \o key[2]
          IN /\ k \in DOMAIN leaderboard_json.entries
             /\ SuppliedTotal(key) = leaderboard_json.entries[k].best_total_ms
             /\ lb.entries[k] = leaderboard_json.entries[k]

\* No supplied result is strictly better than the stored best of its key.
NoSuppliedResultIsBetter ==
    \A key \in DOMAIN candidate :
        LET k == key[1] \o "/" \o key[2]
        IN /\ k \in DOMAIN lb.entries
           /\ SuppliedTotal(key) >= lb.entries[k].best_total_ms

\* C6: an update_leaderboard call in which no supplied result is strictly
\* better than its stored best changes neither the entries nor "updated",
\* returns False, and main then does not write the document; a call that
\* replaces an entry advances "updated", returns True, and leaves every entry
\* for which no strictly better result was supplied as it was; the document is
\* written only after update_leaderboard returned True.
C6_UpdateFrame ==
    [][ /\ pc = "lb_update" =>
              /\ NoSuppliedResultIsBetter =>
                    /\ lb' = lb
                    /\ lb_ret' = FALSE
                    /\ pc' = "return"
              /\ lb.entries' # lb.entries =>
                    /\ lb.updated' > lb.updated
                    /\ lb_ret' = TRUE
                    /\ pc' = "lb_save"
              /\ lb.entries' = lb.entries => lb.updated' = lb.updated /\ lb_ret' = FALSE
              /\ \A k \in DOMAIN lb.entries :
                    (\A key \in DOMAIN candidate :
                        key[1] \o "/" \o key[2] = k =>
                            SuppliedTotal(key) >= lb.entries[k].best_total_ms)
                    => (k \in DOMAIN lb.entries' /\ lb.entries'[k] = lb.entries[k])
        /\ (saves' # saves \/ leaderboard_json' # leaderboard_json) =>
              (pc = "lb_save" /\ lb_ret /\ leaderboard_json' = save_leaderboard(lb))
      ]_vars

\* C6 witness: an update in which nothing was better has returned False over a
\* document whose two entries were stored by different invocations, the later
\* of which set "updated".
C6_Witness ==
    /\ pc = "return"
    /\ args.update_leaderboard
    /\ ~lb_ret
    /\ saves = 2
    /\ lb.entries = leaderboard_json.entries
    /\ lb.updated = leaderboard_json.updated
    /\ DOMAIN candidate = Keys \ { KeyUnknown }
    /\ \E k1 \in DOMAIN lb.entries, k2 \in DOMAIN lb.entries :
          /\ lb.entries[k1].timestamp < lb.entries[k2].timestamp
          /\ lb.updated = lb.entries[k2].timestamp

(***************************************************************************)
(* One invocation of the interleaved pair runner with its children.        *)
(***************************************************************************)
\* --types after strip() and upper(): the default, a repeated type, all three
\* types, an empty list and an unsupported type.
TypeLists ==
    { << "MICRO", "MACRO-SMALL" >>, << "MACRO-LARGE", "MACRO-LARGE" >>,
      << "MACRO-SMALL", "MICRO", "MACRO-LARGE" >>, << >>, << "MACRO-HUGE" >> }

RunnerArgs ==
    [repetitions : 0..MaxReps, types : TypeLists,
     baseline_label : { "base", "WIP" }, candidate_label : { "WIP" }]

ExitCodes == { 0, 1 }

\* Result files an earlier invocation left under the results root.
StaleFiles ==
    [f \in { << "base", 1, "micro" >>, << "WIP", 1, "micro" >>, << "old", 1, "micro" >> } |->
        "nonempty"]

InitRunnerSpec ==
    /\ InitMain(NoFile)
    /\ \E fs \in { EmptyMap, StaleFiles } : InitRunner(fs)
    /\ InitAgg
    /\ InitDisc(EmptyMap)
    /\ InitPipe
    /\ InitLbc

NextRunner ==
    \/ /\ rpc = "init"
       /\ \E a \in RunnerArgs, exes \in BOOLEAN : RunnerStart(a, exes)
    \/ RunnerCleanRoot
    \/ RunnerCheckExecutables
    \/ RunnerOpenLogs
    \/ \E side \in Sides : RunnerPopen(side)
    \/ \E side \in Sides : RunnerPopenFails(side)
    \/ \E side \in Sides : RunnerWait(side)
    \/ RunnerRequireBaseline
    \/ RunnerRequireCandidate
    \/ \E id \in DOMAIN procs : ChildWrite(id)
    \/ \E id \in DOMAIN procs, rc \in ExitCodes : ChildExit(id, rc)
    \/ \E id \in DOMAIN procs : ChildHangs(id)

SpecRunner == InitRunnerSpec /\ [][NextRunner]_vars

(***************************************************************************)
(* Properties of the interleaved pair runner (SpecRunner).                 *)
(***************************************************************************)
Started(r, t, side) == << r, t, side >> \in DOMAIN procs

\* The child has terminated and the runner's wait() on it has returned.
Reaped(id) == id \in DOMAIN procs /\ procs[id].state = "reaped"

\* The runner is blocked in, or about to enter, p.wait().
RunnerAtWait ==
    /\ rpc = "pair"
    /\ step <= Len(PairSteps)
    /\ PairSteps[step] \in { "wait_baseline", "wait_candidate" }

\* The unit (rep, run type) the runner is working on.
InCurrentUnit(id) ==
    /\ rep >= 1
    /\ ti >= 1
    /\ id[1] = rep
    /\ id[2] = run_types[ti]

\* C7: in every unit the baseline and the candidate process are both started
\* before the runner waits on either of them, and the runner looks at exit
\* codes and result files, and goes on to the next unit, only after both have
\* terminated.
C7_ForkJoin ==
    /\ RunnerAtWait => \A side \in Sides : Started(rep, run_types[ti], side)
    /\ \A id \in DOMAIN procs :
          Reaped(id) => \A side \in Sides : Started(id[1], id[2], side)
    /\ rpc \in { "require_baseline", "require_candidate" } =>
          \A side \in Sides : Reaped(<< rep, run_types[ti], side >>)
    /\ \A id \in DOMAIN procs : ~InCurrentUnit(id) => Reaped(id)
    /\ rpc = "done" => \A id \in DOMAIN procs : Reaped(id)

\* C7 witness: the candidate has already exited while the baseline still runs
\* and the runner is blocked in p_base.wait().
C7_Witness ==
    /\ RunnerAtWait
    /\ PairSteps[step] = "wait_baseline"
    /\ procs[<< rep, run_types[ti], "baseline" >>].state = "running"
    /\ procs[<< rep, run_types[ti], "candidate" >>].state = "exited"

\* Children that were started and whose termination the runner has not seen.
Alive == { id \in DOMAIN procs : procs[id].state # "reaped" }

\* The processes a complete run starts, in order: pairs outer, run types inner,
\* baseline before candidate.
ExpectedLaunch(i, types) ==
    LET u == (i - 1) \div 2
    IN << (u \div Len(types)) + 1,
          types[(u % Len(types)) + 1],
          IF i % 2 = 1 THEN "baseline" ELSE "candidate" >>

\* C8: at most two children are alive at any time and two alive children are
\* the baseline and the candidate of one unit; processes are started in the
\* order pair 1..N (outer), run types (inner); a run that completes has
\* started exactly 2 * repetitions * |run types| processes.
C8_NoCrossUnitParallelism ==
    /\ Cardinality(Alive) <= 2
    /\ \A p \in Alive, q \in Alive : p[1] = q[1] /\ p[2] = q[2]
    /\ \A i \in 1..Len(launched) :
          /\ i <= 2 * rargs.repetitions * Len(run_types)
          /\ launched[i] = ExpectedLaunch(i, run_types)
    /\ Cardinality(DOMAIN procs) = Len(launched)
    /\ rpc = "done" => Len(launched) = 2 * rargs.repetitions * Len(run_types)

\* C8 witness: a run of at least two pairs of two run types has completed.
C8_Witness ==
    /\ rpc = "done"
    /\ rargs.repetitions >= 2
    /\ Len(run_types) >= 2
    /\ Len(launched) >= 8

\* The result file of the current unit's process on the given side is there
\* and not empty.
OutputUsable(side) ==
    LET path == OutPath(rargs, << rep, run_types[ti], side >>)
    IN path \in DOMAIN files /\ files[path] = "nonempty"

\* C9: when the runner checks a process that exited non-zero, a non-empty
\* result file makes it print a warning and go on (to the other side, the
\* next unit or the end), and a missing or empty result file makes it abort;
\* after an abort the runner starts no process and does nothing more.
C9_ExitCodeTolerance ==
    [][ /\ (rpc = "require_baseline" /\ base_rc # 0) =>
              IF OutputUsable("baseline")
              THEN warnings' = warnings + 1 /\ rpc' = "require_candidate"
              ELSE warnings' = warnings /\ rpc' = "failed" /\ error' = "RuntimeError"
        /\ (rpc = "require_candidate" /\ cand_rc # 0) =>
              IF OutputUsable("candidate")
              THEN warnings' = warnings + 1 /\ rpc' \in { "pair", "done" }
              ELSE warnings' = warnings /\ rpc' = "failed" /\ error' = "RuntimeError"
        /\ rpc = "failed" =>
              /\ rpc' = "failed"
              /\ launched' = launched
              /\ DOMAIN procs' = DOMAIN procs
      ]_vars

\* C9 witness: both processes of the first unit exited non-zero with output,
\* two warnings were printed and the runner is in the second unit.
C9_Witness ==
    /\ rpc = "pair"
    /\ rep = 1
    /\ ti = 2
    /\ warnings = 2
    /\ launched # << >>
    /\ Len(launched) = 3

\* C10 as stated: a child that does not exit is killed after a timeout, so the
\* runner always terminates; hence in every state the runner has returned or
\* raised, or a step of the runner or of a child is still possible.
C10_RunnerNeverBlocksForever ==
    rpc \in { "done", "failed" } \/ ENABLED NextRunner

\* The units the loops of main have completed: those before unit (rep, ti).
EarlierUnits ==
    { u \in (1..rargs.repetitions) \X (1..Len(run_types)) :
        u[1] < rep \/ (u[1] = rep /\ u[2] < ti) }

\* The result files and the log files of both sides of unit u.
UnitPaths(u) ==
    { OutPath(rargs, << u[1], run_types[u[2]], side >>) : side \in Sides }
        \cup LogPaths(rargs, u[1], run_types[u[2]])

\* C25: from the moment a unit is completed, through every later unit and
\* through an abort with a hard failure, both result files of the unit are on
\* disk and non-empty, its four logs are on disk, and no step of the runner or
\* of a child deletes or changes any of them.
C25_EarlierUnitsKept ==
    [][ \A u \in EarlierUnits :
            /\ \A side \in Sides :
                  HasUsableOutput(files, OutPath(rargs, << u[1], run_types[u[2]], side >>))
            /\ \A p \in UnitPaths(u) :
                  /\ p \in DOMAIN files
                  /\ p \in DOMAIN files'
                  /\ files'[p] = files[p]
      ]_vars

\* C25 witness: the runner has aborted on a missing result file in the second
\* run type of the second pair, after three completed units whose stdout logs
\* were filled.
C25_Witness ==
    /\ rpc = "failed"
    /\ error = "RuntimeError"
    /\ rep = 2
    /\ ti = 2
    /\ Cardinality(EarlierUnits) = 3
    /\ \A u \in EarlierUnits :
          \A side \in Sides :
              /\ HasUsableOutput(files, OutPath(rargs, << u[1], run_types[u[2]], side >>))
              /\ files[LogPath(rargs, << u[1], run_types[u[2]], side >>, "stdout")] = "nonempty"

\* The result file and the two logs that the process of one side of unit
\* (r, t) writes.
SidePaths(r, t, side) ==
    { OutPath(rargs, << r, run_types[t], side >>) }
        \cup { LogPath(rargs, << r, run_types[t], side >>, stream) :
                 stream \in { "stdout", "stderr" } }

\* C26 as stated: once the arguments are accepted, in every unit the files of
\* the baseline process are all different from the files of the candidate
\* process, and the files of one pair are different from those of every other
\* pair.
C26_NamespaceIsolation ==
    (rpc \notin { "init" } /\ error # "ValueError") =>
        \A r \in 1..rargs.repetitions, t \in 1..Len(run_types) :
            /\ SidePaths(r, t, "baseline") \cap SidePaths(r, t, "candidate") = {}
            /\ \A r2 \in 1..rargs.repetitions, t2 \in 1..Len(run_types) :
                  r2 # r =>
                      \A s \in Sides, s2 \in Sides :
                          SidePaths(r, t, s) \cap SidePaths(r2, t2, s2) = {}

\* C27 as stated: whenever the runner has stopped, by returning or by any hard
\* failure, no process it started is still running.
C27_NoChildLeftRunning ==
    rpc \in { "done", "failed" } =>
        \A id \in DOMAIN procs : procs[id].state \notin { "running", "hung" }

\* C28: whatever the exit code, a process whose result file is missing or
\* empty makes the runner abort with RuntimeError and a process whose result
\* file is non-empty is accepted; the candidate is checked only after the
\* baseline was accepted, so when neither side has a usable result file the
\* runner aborts in the baseline's check and the candidate's check never runs.
C28_OutputIsTheOnlyCriterion ==
    [][ /\ rpc = "require_baseline" =>
              IF OutputUsable("baseline")
              THEN rpc' = "require_candidate" /\ error' = error
              ELSE rpc' = "failed" /\ error' = "RuntimeError" /\ warnings' = warnings
        /\ rpc = "require_candidate" =>
              IF OutputUsable("candidate")
              THEN rpc' \in { "pair", "done" } /\ error' = error
              ELSE rpc' = "failed" /\ error' = "RuntimeError" /\ warnings' = warnings
        /\ (rpc # "require_candidate" /\ rpc' = "require_candidate") =>
              (rpc = "require_baseline" /\ OutputUsable("baseline"))
        /\ (error # "RuntimeError" /\ error' = "RuntimeError") =>
              /\ rpc \in { "require_baseline", "require_candidate" }
              /\ rpc = "require_candidate" => OutputUsable("baseline")
      ]_vars

\* C28 witness: both processes of a unit exited with code 0, neither result
\* file is usable, and the runner has aborted in the baseline's check.
C28_Witness ==
    /\ rpc = "failed"
    /\ error = "RuntimeError"
    /\ base_rc = 0
    /\ cand_rc = 0
    /\ ~OutputUsable("baseline")
    /\ ~OutputUsable("candidate")

\* The files this invocation created: the result file and the logs of every
\* process it started, and the logs opened for the unit it is in.
FilesOfThisInvocation ==
    { OutPath(rargs, id) : id \in DOMAIN procs }
        \cup { LogPath(rargs, id, stream) :
                 id \in DOMAIN procs, stream \in { "stdout", "stderr" } }
        \cup (IF rpc \in { "pair", "failed" } /\ rep >= 1 /\ step > 1
              THEN LogPaths(rargs, rep, run_types[ti])
              ELSE {})

\* C30 as stated: whenever an invocation has stopped, also by a failure before
\* it launched any process, the root holds no file of an earlier invocation.
C30_NoFileOfEarlierInvocation ==
    rpc \in { "done", "failed" } =>
        DOMAIN files \subseteq FilesOfThisInvocation

\* C30: argument validation touches no file, and an invocation that fails it
\* (ValueError) leaves the root as it found it; only an invocation whose
\* repetitions and run types were accepted deletes the root, every label
\* directory at once, before it checks the executables and before it starts a
\* process; from then on, also when it fails on a missing executable, every
\* file in the root was created by this invocation.
C30_RootDeletedAfterValidation ==
    [][ /\ rpc = "init" => files' = files
        /\ (rpc # "clean" /\ rpc' = "clean") =>
              /\ rpc = "init"
              /\ rargs'.repetitions >= 1
              /\ ~parse_types_raises(rargs'.types)
        /\ rpc = "clean" =>
              /\ files' = EmptyMap
              /\ rpc' = "check_exe"
              /\ procs' = EmptyMap
        /\ rpc = "check_exe" =>
              /\ files' = EmptyMap
              /\ procs' = EmptyMap
              /\ rpc' = "failed" => error' = "FileNotFoundError"
        /\ error' = "ValueError" =>
              /\ files' = root_before'
              /\ procs' = EmptyMap
        /\ (rpc' \notin { "init", "clean" } /\ error' # "ValueError") =>
              DOMAIN files' \subseteq FilesOfThisInvocation'
      ]_vars

\* C30 witness: over a root that held files of three labels, an invocation
\* with accepted arguments failed on a missing executable and left the root
\* empty.
C30_Witness ==
    /\ rpc = "failed"
    /\ error = "FileNotFoundError"
    /\ root_before = StaleFiles
    /\ files = EmptyMap
    /\ procs = EmptyMap

(***************************************************************************)
(* lib/aggregation.py: JSON values with their Python type.                 *)
(***************************************************************************)
\* A value of a JSON object as Python sees it: an int or a float num/den, a
\* bool (num is 1 or 0), or the str s, followed by " [trk=<sfx>]" when sfx is
\* not empty.
IntV(n) == [kind |-> "int", num |-> n, den |-> 1, s |-> "", sfx |-> ""]

FloatV(n, d) ==
    [kind |-> "float", num |-> Fraction(n, d).num, den |-> Fraction(n, d).den,
     s |-> "", sfx |-> ""]

BoolV(b) ==
    [kind |-> "bool", num |-> IF b THEN 1 ELSE 0, den |-> 1, s |-> "", sfx |-> ""]

StrV(t) == [kind |-> "str", num |-> 0, den |-> 1, s |-> t, sfx |-> ""]

TrkV(t, trk) == [kind |-> "str", num |-> 0, den |-> 1, s |-> t, sfx |-> trk]

\* isinstance(v, bool)
isinstance_bool(v) == v.kind = "bool"

\* isinstance(v, (int, float)) and not isinstance(v, bool)
isinstance_number(v) == v.kind \in { "int", "float" }

\* isinstance(v, (int, float)): a Python bool is an int.
isinstance_int_or_float(v) == v.kind \in { "int", "float", "bool" }

\* a < b for two numbers.
NumLess(a, b) == a.num * b.den < b.num * a.den

RECURSIVE Insert(_, _)
\* v put into the ascending list seq, after the elements that are not greater.
Insert(v, seq) ==
    IF seq = << >> THEN << v >>
    ELSE IF NumLess(v, Head(seq)) THEN << v >> \o seq
    ELSE << Head(seq) >> \o Insert(v, Tail(seq))

RECURSIVE sorted_values(_)
\* sorted(data) inside statistics.median (stable).
sorted_values(data) ==
    IF data = << >> THEN << >>
    ELSE Insert(data[Len(data)], sorted_values(SubSeq(data, 1, Len(data) - 1)))

\* statistics.median(data), data not empty: the middle element, or the mean
\* (a + b) / 2 of the two middle elements; the exact value as num/den.
median(data) ==
    LET d == sorted_values(data)
        n == Len(d)
        i == n \div 2
    IN IF n % 2 = 1 THEN Fraction(d[i + 1].num, d[i + 1].den)
       ELSE Fraction(d[i].num * d[i + 1].den + d[i + 1].num * d[i].den,
                     2 * d[i].den * d[i + 1].den)

\* Mutant: halves rounded up, int(med + 0.5), in place of Python's round().
round_half_up(q) == (2 * q.num + q.den) \div (2 * q.den)

\* round(med): the nearest integer, a half going to the even neighbour.
round(q) ==
    LET f == q.num \div q.den
        r2 == 2 * (q.num - f * q.den)
    IN IF r2 < q.den THEN f
       ELSE IF r2 > q.den THEN f + 1
       ELSE IF f % 2 = 0 THEN f ELSE f + 1

\* median_value: int(round(med)) when every value is an int, else float(med).
median_value(values) ==
    LET med == median(values)
    IN IF \A i \in 1..Len(values) : values[i].kind = "int"
       THEN IntV(round(med))
       ELSE FloatV(med.num, med.den)

\* Mutant: any(values) in place of all(values).
any_values(values) == \E i \in 1..Len(values) : values[i].num # 0

\* all(values) for a list of bools.
all_values(values) == \A i \in 1..Len(values) : values[i].num # 0

\* aggregate_dicts: the first sample, with every key that all samples have
\* replaced by the reduction of its values; a key that some sample lacks is
\* skipped by "continue" and keeps what dict(samples[0]) gave it.
aggregate_dicts(samples) ==
    IF samples = << >> THEN EmptyMap
    ELSE LET values(key) == [i \in 1..Len(samples) |-> samples[i][key]]
             in_all(key) == \A i \in 1..Len(samples) : key \in DOMAIN samples[i]
         IN [key \in DOMAIN samples[1] |->
                IF ~in_all(key) THEN samples[1][key]
                ELSE IF \A i \in 1..Len(samples) : isinstance_bool(values(key)[i])
                     THEN BoolV(all_values(values(key)))
                ELSE IF \A i \in 1..Len(samples) : isinstance_number(values(key)[i])
                     THEN median_value(values(key))
                ELSE values(key)[1]]

(***************************************************************************)
(* lib/aggregation.py: grouping and the two aggregate_*_payloads.          *)
(***************************************************************************)
\* constants.mode_base: the mode without its " [trk=...]" suffix.
mode_base(raw_mode) == [raw_mode EXCEPT !.sfx = ""]

\* _macro_row_key: the raw mode, and selected_columns with num_columns and 0
\* as fallbacks.
macro_row_key(row) ==
    << Field(row, "dataset", StrV("?")),
       Field(row, "mode", StrV("?")),
       Field(row, "scenario_id", StrV("baseline")),
       Field(row, "access_path", StrV("-")),
       Field(row, "selected_columns", Field(row, "num_columns", IntV(0))) >>

\* bm.get("name", "?") of aggregate_micro_payloads, as a 1-tuple.
micro_name_key(bm) == << Field(bm, "name", StrV("?")) >>

\* The strings of the model in Python's order (code points); no string of the
\* list is a prefix of another one.
StrOrder ==
    << "-", "?", "BM_Get", "BM_Set", "CSV", "MACRO-LARGE", "MACRO-SMALL", "baseline",
       "iot", "ok", "skipped", "sparse", "weather" >>

StrRank(t) == CHOOSE i \in 1..Len(StrOrder) : StrOrder[i] = t

SfxRank(t) == CASE t = "" -> 0 [] t = "off" -> 1 [] t = "on" -> 2

\* a < b for two values of the same Python type.
ValLess(a, b) ==
    IF a.kind = "str"
    THEN \/ StrRank(a.s) < StrRank(b.s)
         \/ a.s = b.s /\ SfxRank(a.sfx) < SfxRank(b.sfx)
    ELSE NumLess(a, b)

\* a < b for two tuples of the same length (Python compares element-wise).
TupleLess(a, b) ==
    \E i \in 1..Len(a) :
        /\ \A j \in 1..(i - 1) : a[j] = b[j]
        /\ ValLess(a[i], b[i])

RECURSIVE sorted_keys_reverse(_)
\* Mutant: sorted(result_map, reverse=True).
sorted_keys_reverse(S) ==
    IF S = {} THEN << >>
    ELSE LET k == CHOOSE x \in S : \A y \in S \ { x } : TupleLess(y, x)
         IN << k >> \o sorted_keys_reverse(S \ { k })

RECURSIVE sorted_keys(_)
\* sorted(result_map): the keys of a dict in ascending order.
sorted_keys(S) ==
    IF S = {} THEN << >>
    ELSE LET k == CHOOSE x \in S : \A y \in S \ { x } : TupleLess(x, y)
         IN << k >> \o sorted_keys(S \ { k })

RECURSIVE all_rows(_, _)
\* The rows of every payload under the key name, in the order the two nested
\* loops visit them.
all_rows(payloads, name) ==
    IF payloads = << >> THEN << >>
    ELSE Head(payloads)[name] \o all_rows(Tail(payloads), name)

\* The key of a row in result_map (fn = "macro") or bm_map (fn = "micro").
row_key(fn, r) == IF fn = "macro" THEN macro_row_key(r) ELSE micro_name_key(r)

\* result_map / bm_map: key -> the rows with that key, in visiting order.
group_rows(rows, fn) ==
    [k \in { row_key(fn, rows[i]) : i \in 1..Len(rows) } |->
        SelectSeq(rows, LAMBDA r : row_key(fn, r) = k)]

\* [aggregate_dicts(result_map[k]) for k in sorted(result_map)]
merged_rows(groups) ==
    LET ks == sorted_keys(DOMAIN groups)
    IN [i \in 1..Len(ks) |-> aggregate_dicts(groups[ks[i]])]

\* d[name] = v on a dict d.
SetField(d, name, v) ==
    [k \in (DOMAIN d) \cup { name } |-> IF k = name THEN v ELSE d[k]]

\* The values of total_time_sec that are int or float, in payload order.
totals_of(payloads) ==
    LET with == SelectSeq(payloads,
            LAMBDA p : /\ "total_time_sec" \in DOMAIN p.fields
                       /\ isinstance_int_or_float(p.fields["total_time_sec"]))
    IN [i \in 1..Len(with) |-> with[i].fields["total_time_sec"]]

Annotation(payloads) == [method |-> "median", repetitions |-> Len(payloads)]

\* aggregate_macro_payloads(payloads, run_type); a payload is
\* [fields |-> the run-level scalars, results |-> the list of rows].
aggregate_macro_payloads(payloads, run_type) ==
    IF payloads = << >> THEN NoPayload
    ELSE LET totals == totals_of(payloads)
             out0 == payloads[1].fields
             out1 == IF totals # << >>
                     THEN SetField(out0, "total_time_sec",
                                   FloatV(median(totals).num, median(totals).den))
                     ELSE out0
         IN [fields |-> SetField(out1, "run_type", StrV(run_type)),
             results |-> merged_rows(group_rows(all_rows(payloads, "results"),
                                                "macro")),
             aggregation |-> Annotation(payloads)]

\* aggregate_micro_payloads(payloads); a payload is
\* [fields |-> the run-level scalars, benchmarks |-> the list of entries].
aggregate_micro_payloads(payloads) ==
    IF payloads = << >> THEN NoPayload
    ELSE [fields |-> payloads[1].fields,
          benchmarks |-> merged_rows(group_rows(all_rows(payloads, "benchmarks"),
                                                "micro")),
          aggregation |-> Annotation(payloads)]

\* One call of aggregate_macro_payloads.
AggregateMacro(payloads, run_type) ==
    /\ agg_pc = "idle"
    /\ agg_fn' = "macro"
    /\ agg_in' = payloads
    /\ agg_rt' = run_type
    /\ agg_out' = aggregate_macro_payloads(payloads, run_type)
    /\ agg_pc' = "returned"
    /\ UNCHANGED << cmpVars, runnerVars, discVars, pipeVars, lbcVars >>

\* One call of aggregate_micro_payloads.
AggregateMicro(payloads) ==
    /\ agg_pc = "idle"
    /\ agg_fn' = "micro"
    /\ agg_in' = payloads
    /\ agg_rt' = ""
    /\ agg_out' = aggregate_micro_payloads(payloads)
    /\ agg_pc' = "returned"
    /\ UNCHANGED << cmpVars, runnerVars, discVars, pipeVars, lbcVars >>

(***************************************************************************)
(* Inputs of the aggregator.                                               *)
(***************************************************************************)
\* A result row as bench_macro_datasets writes it.
Row(ds, mode, w, valid) ==
    [dataset |-> StrV(ds), mode |-> mode, scenario_id |-> StrV("baseline"),
     access_path |-> StrV("-"), selected_columns |-> IntV(3), num_columns |-> IntV(3),
     status |-> StrV("ok"), write_time_ms |-> w, validation_passed |-> valid]

Weather(w, valid) == Row("weather", StrV("CSV"), w, valid)

Iot(w) == Row("iot", StrV("CSV"), w, BoolV(TRUE))

\* Run-level scalars of three repetitions: the time stamps differ, and
\* total_time_sec is a float, an int, or missing.
MetaA ==
    [timestamp |-> StrV("t1"), total_time_sec |-> FloatV(5, 2),
     run_type |-> StrV("MACRO-SMALL")]

MetaB == [timestamp |-> StrV("t2"), total_time_sec |-> IntV(4)]

MetaC == [timestamp |-> StrV("t3"), run_type |-> StrV("MACRO-SMALL")]

MacroPayload(meta, rows) == [fields |-> meta, results |-> rows]

\* Repetition payloads: int and float timings, a false and a non-bool flag, a
\* tracking suffix, another scenario, a skipped row, an extra field, rows out
\* of key order and two rows with one key.
MacroPayloads ==
    { MacroPayload(MetaA, << Weather(IntV(10), BoolV(TRUE)) >>),
      MacroPayload(MetaB, << Weather(IntV(12), BoolV(TRUE)) >>),
      MacroPayload(MetaA, << Weather(IntV(11), BoolV(FALSE)) >>),
      MacroPayload(MetaA, << Weather(FloatV(25, 2), BoolV(TRUE)) >>),
      MacroPayload(MetaA, << Weather(FloatV(10, 1), BoolV(TRUE)) >>),
      MacroPayload(MetaA, << Row("weather", TrkV("CSV", "on"), IntV(10), BoolV(TRUE)) >>),
      MacroPayload(MetaA, << Weather(IntV(10), BoolV(TRUE)), Iot(IntV(20)) >>),
      MacroPayload(MetaA, << SetField(Iot(IntV(0)), "status", StrV("skipped")) >>),
      MacroPayload(MetaA, << SetField(Weather(IntV(10), BoolV(TRUE)), "warmup_ms", IntV(3)) >>),
      MacroPayload(MetaA, << Weather(IntV(10), IntV(1)) >>),
      MacroPayload(MetaA, << SetField(Weather(IntV(10), BoolV(TRUE)),
                                      "scenario_id", StrV("sparse")) >>),
      MacroPayload(MetaC, << Iot(IntV(20)), Weather(IntV(10), BoolV(TRUE)) >>),
      MacroPayload(MetaA, << Weather(IntV(10), BoolV(TRUE)),
                             Weather(IntV(13), BoolV(TRUE)) >>) }

Benchmark(name, t) == [name |-> StrV(name), real_time |-> t, iterations |-> IntV(100)]

MicroPayload(meta, rows) == [fields |-> meta, benchmarks |-> rows]

MicroPayloads ==
    { MicroPayload(MetaA, << Benchmark("BM_Set", IntV(5)), Benchmark("BM_Get", IntV(7)) >>),
      MicroPayload(MetaB, << Benchmark("BM_Get", FloatV(17, 2)) >>),
      MicroPayload(MetaC, << Benchmark("BM_Get", IntV(8)), Benchmark("BM_Set", IntV(6)) >>),
      MicroPayload(MetaC, << SetField(Benchmark("BM_Get", IntV(8)), "label", StrV("ok")) >>) }

\* The lists of at most n elements of S.
ListsOf(S, n) == UNION { [1..k -> S] : k \in 0..n }

RunTypeArgs == { "MACRO-SMALL", "MACRO-LARGE" }

InitAggregate ==
    /\ InitMain(NoFile)
    /\ InitRunner(EmptyMap)
    /\ InitAgg
    /\ InitDisc(EmptyMap)
    /\ InitPipe
    /\ InitLbc

NextAggregate ==
    \/ /\ agg_pc = "idle"
       /\ \E payloads \in ListsOf(MacroPayloads, MaxPayloads), rt \in RunTypeArgs :
            AggregateMacro(payloads, rt)
    \/ /\ agg_pc = "idle"
       /\ \E payloads \in ListsOf(MicroPayloads, MaxPayloads) : AggregateMicro(payloads)

SpecAggregate == InitAggregate /\ [][NextAggregate]_vars

(***************************************************************************)
(* Properties of the aggregator (SpecAggregate).                           *)
(***************************************************************************)
\* The list of rows of a payload of the function that was called.
RowsOf(p) == IF agg_fn = "macro" THEN p.results ELSE p.benchmarks

\* The grouping key the function that was called gives a row.
KeyOf(r) == row_key(agg_fn, r)

\* The rows are in strictly ascending key order (so no key occurs twice).
InKeyOrder(rows) ==
    \A i, j \in 1..Len(rows) : i < j => TupleLess(KeyOf(rows[i]), KeyOf(rows[j]))

\* Python's == on two JSON scalars: numbers compare by value (4 == 4.0).
SameValue(a, b) ==
    IF isinstance_int_or_float(a) /\ isinstance_int_or_float(b)
    THEN a.num * b.den = b.num * a.den
    ELSE a = b

AggregatedOne == agg_pc = "returned" /\ Len(agg_in) = 1

\* C11 as stated: aggregating the one-element list [P] returns P field for
\* field (the run-level fields, and the rows in their order and content), the
\* aggregation annotation aside.
C11_IdempotenceAsStated ==
    AggregatedOne =>
        /\ RowsOf(agg_out) = RowsOf(agg_in[1])
        /\ DOMAIN agg_out.fields = DOMAIN agg_in[1].fields
        /\ \A f \in DOMAIN agg_in[1].fields :
                SameValue(agg_out.fields[f], agg_in[1].fields[f])

\* C11 as amended: aggregating [P] returns the run-level fields of P with
\* equal values (for macro payloads total_time_sec as a float and run_type
\* set to the run_type argument) plus the annotation {median, 1}; the rows are
\* those of P in content and order when P's rows are in strictly ascending
\* key order, and in any case they are the per-key reductions in key order.
C11_Idempotence ==
    AggregatedOne =>
        LET P == agg_in[1]
            macro == agg_fn = "macro"
        IN /\ InKeyOrder(RowsOf(P)) => RowsOf(agg_out) = RowsOf(P)
           /\ InKeyOrder(RowsOf(agg_out))
           /\ DOMAIN agg_out.fields =
                (DOMAIN P.fields) \cup (IF macro THEN { "run_type" } ELSE {})
           /\ \A f \in DOMAIN agg_out.fields :
                IF macro /\ f = "run_type"
                THEN agg_out.fields[f] = StrV(agg_rt)
                ELSE SameValue(agg_out.fields[f], P.fields[f])
           /\ macro /\ "total_time_sec" \in DOMAIN agg_out.fields
                => agg_out.fields["total_time_sec"].kind = "float"
           /\ agg_out.aggregation = [method |-> "median", repetitions |-> 1]

\* A payload with two rows in key order and a run_type other than the
\* argument was aggregated alone.
C11_Witness ==
    /\ AggregatedOne
    /\ agg_fn = "macro"
    /\ Len(agg_in[1].results) = 2
    /\ InKeyOrder(agg_in[1].results)
    /\ agg_out.results = agg_in[1].results
    /\ agg_in[1].fields["run_type"] # StrV(agg_rt)

\* What the function that was called returns for another list of payloads.
Reaggregated(payloads) ==
    IF agg_fn = "macro" THEN aggregate_macro_payloads(payloads, agg_rt)
    ELSE aggregate_micro_payloads(payloads)

\* The list agg_in rearranged by the permutation f of its indices.
Permuted(f) == [i \in 1..Len(agg_in) |-> agg_in[f[i]]]

\* C12: aggregating any permutation of the list of repetition payloads
\* returns the identical output (rows, their order, every field of every
\* row, and the run-level fields).
C12_OrderIndependence ==
    agg_pc = "returned" =>
        \A f \in Permutations(1..Len(agg_in)) : Reaggregated(Permuted(f)) = agg_out

\* The members of the group of key k: the input rows with that key.
GroupOf(k) ==
    SelectSeq(all_rows(agg_in, IF agg_fn = "macro" THEN "results" ELSE "benchmarks"),
              LAMBDA r : KeyOf(r) = k)

\* v is the k-th smallest of the numbers vs.
IsKthSmallest(vs, v, k) ==
    /\ Cardinality({ i \in 1..Len(vs) : NumLess(vs[i], v) }) < k
    /\ k <= Cardinality({ i \in 1..Len(vs) : ~NumLess(v, vs[i]) })

\* a and b are the two middle elements of vs (the same one when the length is odd).
AreMiddle(vs, a, b) ==
    /\ IsKthSmallest(vs, a, (Len(vs) + 1) \div 2)
    /\ IsKthSmallest(vs, b, Len(vs) \div 2 + 1)

\* The int r is the median (a + b) / 2 of integers rounded to the nearest
\* integer, a half going to the even neighbour.
IsRoundedMedian(r, a, b) ==
    /\ r.kind = "int"
    /\ r.den = 1
    /\ Abs(2 * r.num - (a.num + b.num)) <= 1
    /\ (a.num + b.num) % 2 = 1 => r.num % 2 = 0

\* The float q is the median (a + b) / 2.
IsFloatMedian(q, a, b) ==
    /\ q.kind = "float"
    /\ 2 * q.num * a.den * b.den = q.den * (a.num * b.den + b.num * a.den)

\* C13: in every aggregated row, a field that all members of the group have
\* is an int equal to the rounded median (halves to even, as Python rounds)
\* when every value is an int, and the float median when every value is an
\* int or a float and at least one is a float.
C13_MedianKindPreserved ==
    agg_pc = "returned" /\ agg_in # << >> =>
        \A n \in 1..Len(RowsOf(agg_out)) :
            LET out == RowsOf(agg_out)[n]
                group == GroupOf(KeyOf(out))
            IN \A f \in DOMAIN out :
                (\A i \in 1..Len(group) :
                    f \in DOMAIN group[i] /\ isinstance_number(group[i][f]))
                => LET vs == [i \in 1..Len(group) |-> group[i][f]]
                   IN \E i, j \in 1..Len(vs) :
                        /\ AreMiddle(vs, vs[i], vs[j])
                        /\ IF \A m \in 1..Len(vs) : vs[m].kind = "int"
                           THEN IsRoundedMedian(out[f], vs[i], vs[j])
                           ELSE IsFloatMedian(out[f], vs[i], vs[j])

\* The timings 10, 12 and 11 of three repetitions were reduced to the int 11.
C13_Witness ==
    /\ agg_pc = "returned"
    /\ agg_fn = "macro"
    /\ Len(agg_in) = 3
    /\ [i \in 1..3 |-> agg_in[i].results[1]["write_time_ms"]]
            = << IntV(10), IntV(12), IntV(11) >>
    /\ Len(agg_out.results) = 1
    /\ agg_out.results[1]["write_time_ms"] = IntV(11)

\* The row reports status = skipped.
IsSkipped(r) == "status" \in DOMAIN r /\ r["status"] = StrV("skipped")

\* The payloads without their skipped rows.
WithoutSkipped(payloads) ==
    [i \in 1..Len(payloads) |->
        [payloads[i] EXCEPT !.results = SelectSeq(@, LAMBDA r : ~IsSkipped(r))]]

\* C14: a skipped record contributes to no output of the aggregator: the
\* aggregated rows are those the payloads give without their skipped rows (no
\* group holds a skipped row, no median takes a value of one).
C14_SkippedNeverContributes ==
    agg_pc = "returned" /\ agg_fn = "macro" /\ agg_in # << >> =>
        agg_out.results = Reaggregated(WithoutSkipped(agg_in)).results

\* The workload key of the data model: dataset, mode without the tracking
\* suffix, scenario_id ("baseline"), access_path ("-"), selected_columns.
WorkloadKey(r) ==
    << Field(r, "dataset", StrV("?")),
       mode_base(Field(r, "mode", StrV("?"))),
       Field(r, "scenario_id", StrV("baseline")),
       Field(r, "access_path", StrV("-")),
       Field(r, "selected_columns", Field(r, "num_columns", IntV(0))) >>

\* C15: records are the same workload exactly when their workload keys are
\* equal: the aggregator emits one row for each workload key of its input,
\* so no two aggregated rows have the same workload key (modes that differ
\* only in the "[trk=...]" suffix are merged) and rows that differ in
\* scenario_id, access_path or selected_columns stay apart.
C15_WorkloadIdentity ==
    agg_pc = "returned" /\ agg_fn = "macro" /\ agg_in # << >> =>
        LET rows == all_rows(agg_in, "results")
            out == agg_out.results
        IN /\ { WorkloadKey(out[i]) : i \in 1..Len(out) }
                = { WorkloadKey(rows[i]) : i \in 1..Len(rows) }
           /\ \A i, j \in 1..Len(out) :
                i # j => WorkloadKey(out[i]) # WorkloadKey(out[j])

\* Python's truth value of a JSON scalar.
Truthy(v) == IF v.kind = "str" THEN v.s # "" ELSE v.num # 0

\* C19 as stated: in every aggregated row, a field that all members of the
\* group have and for which some member holds a boolean is the logical AND of
\* the members' values, whatever the order of the repetitions.
C19_BooleanMergeAsStated ==
    agg_pc = "returned" /\ agg_in # << >> =>
        \A n \in 1..Len(RowsOf(agg_out)) :
            LET out == RowsOf(agg_out)[n]
                group == GroupOf(KeyOf(out))
            IN \A f \in DOMAIN out :
                (/\ \A i \in 1..Len(group) : f \in DOMAIN group[i]
                 /\ \E i \in 1..Len(group) : isinstance_bool(group[i][f]))
                => SameValue(out[f], BoolV(\A i \in 1..Len(group) : Truthy(group[i][f])))

\* C19 as amended: in every aggregated row, a field that all members of the
\* group have and for which every member holds a boolean is the boolean AND
\* of the members' values (false as soon as one repetition reports false);
\* every order of the repetitions is among the inputs.
C19_BooleanMerge ==
    agg_pc = "returned" /\ agg_in # << >> =>
        \A n \in 1..Len(RowsOf(agg_out)) :
            LET out == RowsOf(agg_out)[n]
                group == GroupOf(KeyOf(out))
            IN \A f \in DOMAIN out :
                (\A i \in 1..Len(group) :
                    f \in DOMAIN group[i] /\ isinstance_bool(group[i][f]))
                => out[f] = BoolV(\A i \in 1..Len(group) : group[i][f] = BoolV(TRUE))

\* Two repetitions reported true and then false for one workload, and the
\* aggregate reports false.
C19_Witness ==
    /\ agg_pc = "returned"
    /\ agg_fn = "macro"
    /\ Len(agg_in) = 2
    /\ agg_in[1].results[1]["validation_passed"] = BoolV(TRUE)
    /\ agg_in[2].results[1]["validation_passed"] = BoolV(FALSE)
    /\ Len(agg_out.results) = 1
    /\ agg_out.results[1]["validation_passed"] = BoolV(FALSE)

\* C20: every field of an aggregated row is a field of every member of its
\* group; a field that only some members have is not in the aggregate,
\* whichever repetition carries it.
C20_PartialFieldsDropped ==
    agg_pc = "returned" /\ agg_in # << >> =>
        \A n \in 1..Len(RowsOf(agg_out)) :
            LET out == RowsOf(agg_out)[n]
                group == GroupOf(KeyOf(out))
            IN \A f \in DOMAIN out : \A i \in 1..Len(group) : f \in DOMAIN group[i]

(***************************************************************************)
(* The comparison entry point over payloads with unmatched keys.           *)
(***************************************************************************)
\* Rows of macro_results.json: two measurements of weather/CSV, one of
\* iot/CSV, and the empty object {}.
MatchRows ==
    { EmptyMap, Rec("iot", 100, 50, 1000000, 1000),
      Rec("weather", 100, 50, 1000000, 10000), Rec("weather", 120, 50, 1000000, 10000) }

\* The "results" lists of at most two rows, in any order.
MatchPayloads == { << >> } \cup { << a >> : a \in MatchRows }
                           \cup { << a, b >> : a \in MatchRows, b \in MatchRows }

MatchDirs == { [exists |-> TRUE, hasfile |-> TRUE, payload |-> p] : p \in MatchPayloads }

MatchArgs ==
    [leaderboard : { FALSE }, latest : { FALSE }, dirs : { 2 }, threshold : { 5 },
     update_leaderboard : BOOLEAN, allow_mismatched_rows : { FALSE }]

InitMatch ==
    /\ InitMain(StoredLeaderboard)
    /\ InitRunner(EmptyMap)
    /\ InitAgg
    /\ InitDisc(EmptyMap)
    /\ InitPipe
    /\ InitLbc

NextMatch ==
    \/ /\ pc = "idle"
       /\ \E a \in MatchArgs, bdir \in MatchDirs, cdir \in MatchDirs :
              MainStart(a, 2, bdir, cdir)
    \/ MainGuard
    \/ MainCompare
    \/ MainLoadLeaderboard
    \/ MainUpdateLeaderboard
    \/ MainSaveLeaderboard
    \/ MainReturn

SpecMatch == InitMatch /\ [][NextMatch]_vars

\* The keys of the rows of the comparison, in the order of the list.
ComparedKeys == [i \in 1..Len(comparisons) |-> << comparisons[i].dataset, comparisons[i].mode >>]

\* C16: compare_results returns exactly one row for every key that is in
\* both the baseline and the candidate and none for any other key, in
\* ascending key order.
C16_OneRowPerSharedKey ==
    compared => ComparedKeys = sorted((DOMAIN baseline) \cap (DOMAIN candidate))

\* generate_markdown_report / json.dumps(comparisons): the keys the report
\* names are those of the rows of the comparison.
ReportedKeys == { ComparedKeys[i] : i \in 1..Len(ComparedKeys) }

\* C17: once the comparison has been reported, every key that occurs on only
\* one side has been reported to the caller.
C17_UnmatchedKeysReported ==
    compared /\ report =>
        \A k \in ((DOMAIN baseline) \cup (DOMAIN candidate))
                    \ ((DOMAIN baseline) \cap (DOMAIN candidate)) :
            k \in ReportedKeys

(***************************************************************************)
(* Baseline discovery: latest_clean_run of lib/discovery.py ("lib") and    *)
(* its copy in report.py ("report").                                       *)
(***************************************************************************)
\* A directory name is kept one character per element, so that name.lower()
\* and the substring test are computed rather than assumed.
LowerChar(c) == CASE c = "W" -> "w" [] c = "I" -> "i" [] c = "P" -> "p" [] OTHER -> c

\* name.lower()
lower(name) == [i \in 1..Len(name) |-> LowerChar(name[i])]

\* needle in hay
contains(hay, needle) ==
    \E i \in 0..(Len(hay) - Len(needle)) :
        \A j \in 1..Len(needle) : hay[i + j] = needle[j]

\* "wip" in git_bucket.name.lower()
is_wip_bucket(name) == contains(lower(name), << "w", "i", "p" >>)

\* A result file is absent, exists without usable rows ("empty": results []
\* or no benchmark of a known group), or exists with rows.
FileStates == { "absent", "empty", "rows" }

\* path.exists()
exists(f) == f # "absent"

\* macro_types_found (lib/discovery.py) / candidate_macro_types (report.py)
\* of the run directory d.
macro_types_found(impl, d) ==
    IF impl = "lib"
    THEN (IF exists(d.small) THEN { "MACRO-SMALL" } ELSE {})
         \cup (IF exists(d.large) THEN { "MACRO-LARGE" } ELSE {})
         \cup (IF exists(d.legacy) THEN { "MACRO" } ELSE {})
    ELSE IF exists(d.small) \/ exists(d.large)
         THEN (IF d.small = "rows" THEN { "MACRO-SMALL" } ELSE {})
              \cup (IF d.large = "rows" THEN { "MACRO-LARGE" } ELSE {})
         ELSE (IF d.legacy = "rows" THEN { "MACRO" } ELSE {})

\* has_micro (lib/discovery.py) / candidate_has_micro (report.py)
has_micro(impl, d) == IF impl = "lib" THEN exists(d.micro) ELSE d.micro = "rows"

\* The dict appended to candidates for the run directory at path p.
Candidate(q, p, d) ==
    LET found == macro_types_found(q.impl, d)
        macro_overlap == Cardinality(q.required_macro_types \cap found)
        missing_macro == Cardinality(q.required_macro_types \ found)
        missing_micro == IF q.require_micro /\ ~has_micro(q.impl, d) THEN 1 ELSE 0
    IN [run_dir |-> p, mtime |-> d.mtime,
        exact_match |-> (missing_macro = 0 /\ missing_micro = 0),
        missing_total |-> missing_macro + missing_micro,
        macro_overlap |-> macro_overlap]

\* The candidates list of latest_clean_run, as a set (iterdir has no order).
candidates(fs, q) ==
    { Candidate(q, p, fs[p]) :
        p \in { p \in DOMAIN fs :
                  /\ ~is_wip_bucket(p[1])
                  /\ fs[p].kind = "dir"
                  /\ p # q.current_run
                  /\ fs[p].platform
                  /\ (macro_types_found(q.impl, fs[p]) # {} \/ has_micro(q.impl, fs[p])) } }

\* Mutant: missing_total enters the sort key without its minus sign.
sort_key_missing_ascending(c) ==
    << IF c.exact_match THEN 1 ELSE 0, c.missing_total, c.macro_overlap, c.mtime >>

\* key=lambda c: (exact_match, -missing_total, macro_overlap, mtime)
sort_key(c) ==
    << IF c.exact_match THEN 1 ELSE 0, 0 - c.missing_total, c.macro_overlap, c.mtime >>

\* a < b for two tuples of integers of the same length.
IntTupleLess(a, b) ==
    \E i \in 1..Len(a) :
        /\ \A j \in 1..(i - 1) : a[j] = b[j]
        /\ a[i] < b[i]

\* host_root.exists(): the host root exists when anything exists under it (an
\* existing root without entries yields no candidate, the same None).
host_root_exists(fs) == \E p \in DOMAIN fs : fs[p].kind # "absent"

\* The paths latest_clean_run can return.  sort(reverse=True) is stable, so
\* among candidates with equal keys the first in iterdir order is returned,
\* and iterdir order is arbitrary: any candidate with a maximal key.
latest_clean_run(fs, q) ==
    IF ~host_root_exists(fs) \/ candidates(fs, q) = {}
    THEN { NoPath }
    ELSE { c.run_dir : c \in { c \in candidates(fs, q) :
             \A o \in candidates(fs, q) : ~IntTupleLess(sort_key(c), sort_key(o)) } }

(***************************************************************************)
(* Inputs of baseline discovery: a host root with three label directories  *)
(* and four run directories.                                               *)
(***************************************************************************)
LabelV1 == << "v", "1" >>
LabelV2 == << "v", "2" >>
LabelWip == << "v", "2", "-", "W", "I", "P" >>

\* <host root>/<label>/<timestamp>
RunPaths == { << LabelV1, "t1" >>, << LabelV1, "t2" >>, << LabelV2, "t1" >>, << LabelWip, "t1" >> }

\* A run directory with the given files.
RunDir(platform, small, large, legacy, micro, mtime) ==
    [kind |-> "dir", platform |-> platform, small |-> small, large |-> large,
     legacy |-> legacy, micro |-> micro, mtime |-> mtime]

\* No entry at the path (also: the label directory is a plain file or absent).
Absent == [kind |-> "absent", platform |-> FALSE, small |-> "absent", large |-> "absent",
           legacy |-> "absent", micro |-> "absent", mtime |-> 0]

\* A plain file where a run directory would be.
PlainFile == [Absent EXCEPT !.kind = "file"]

DirShapes ==
    { RunDir(TRUE, "absent", "absent", "absent", "absent", 1),
      RunDir(FALSE, "rows", "rows", "absent", "rows", MaxMtime) }
    \cup { RunDir(TRUE, "rows", "absent", "absent", "absent", m) : m \in 1..MaxMtime }
    \cup { RunDir(TRUE, "rows", "rows", "absent", "rows", m) : m \in 1..MaxMtime }
    \cup { RunDir(TRUE, "absent", "absent", "absent", "rows", m) : m \in 1..MaxMtime }
    \cup { RunDir(TRUE, "absent", "absent", "rows", "absent", m) : m \in 1..MaxMtime }
    \cup { RunDir(TRUE, "empty", "absent", "rows", "absent", m) : m \in 1..MaxMtime }

\* What a path under a clean label can hold.
Contents == { Absent, PlainFile } \cup DirShapes

\* What the path under the work-in-progress label can hold.
WipContents == { Absent, RunDir(TRUE, "rows", "rows", "absent", "rows", MaxMtime) }

FileSystems ==
    { fs \in [RunPaths -> Contents \cup WipContents] :
        /\ fs[<< LabelWip, "t1" >>] \in WipContents
        /\ \A p \in RunPaths \ { << LabelWip, "t1" >> } : fs[p] \in Contents }

Queries ==
    [impl : { "lib", "report" },
     current_run : RunPaths,
     required_macro_types : { {}, { "MACRO-SMALL" }, { "MACRO-SMALL", "MACRO-LARGE" } },
     require_micro : BOOLEAN]

InitDiscovery ==
    /\ InitMain(StoredLeaderboard)
    /\ InitRunner(EmptyMap)
    /\ InitAgg
    /\ \E fs \in FileSystems : InitDisc(fs)
    /\ InitPipe
    /\ InitLbc

\* One call latest_clean_run(current_run, required_macro_types, require_micro).
LatestCleanRun(q) ==
    /\ disc_pc = "idle"
    /\ disc_query' = q
    /\ disc_result' \in latest_clean_run(disc_fs, q)
    /\ disc_pc' = "returned"
    /\ UNCHANGED << disc_fs, cmpVars, runnerVars, aggVars, pipeVars, lbcVars >>

NextDiscovery == disc_pc = "idle" /\ \E q \in Queries : LatestCleanRun(q)

SpecDiscovery == InitDiscovery /\ [][NextDiscovery]_vars

(***************************************************************************)
(* Baseline discovery: properties.                                         *)
(***************************************************************************)
\* The label directory's name holds "wip" in any letter case.
WipLabel(name) ==
    \E i \in 1..(Len(name) - 2) :
        /\ name[i] \in { "w", "W" }
        /\ name[i + 1] \in { "i", "I" }
        /\ name[i + 2] \in { "p", "P" }

\* The run directory at p holds at least one result artifact.
HasArtifact(p) ==
    macro_types_found(disc_query.impl, disc_fs[p]) # {} \/ has_micro(disc_query.impl, disc_fs[p])

\* The directories the claim makes eligible: run directories other than the
\* current run, under a label that is not work in progress, with an artifact.
EligibleAsStated(p) ==
    /\ disc_fs[p].kind = "dir"
    /\ p # disc_query.current_run
    /\ ~WipLabel(p[1])
    /\ HasArtifact(p)

\* The same, and the directory holds platform.json.
Eligible(p) == EligibleAsStated(p) /\ disc_fs[p].platform

\* The required run types the directory at p lacks.
Missing(p) ==
    Cardinality(disc_query.required_macro_types \ macro_types_found(disc_query.impl, disc_fs[p]))
    + (IF disc_query.require_micro /\ ~has_micro(disc_query.impl, disc_fs[p]) THEN 1 ELSE 0)

\* The required macro run types the directory at p offers.
Overlap(p) ==
    Cardinality(disc_query.required_macro_types \cap macro_types_found(disc_query.impl, disc_fs[p]))

\* a is a strictly better baseline than b: it covers every required run type
\* and b does not; else it misses fewer; else it overlaps more; else it is newer.
Better(a, b) ==
    \/ Missing(a) = 0 /\ Missing(b) > 0
    \/ /\ (Missing(a) = 0) = (Missing(b) = 0)
       /\ \/ Missing(a) < Missing(b)
          \/ /\ Missing(a) = Missing(b)
             /\ \/ Overlap(a) > Overlap(b)
                \/ /\ Overlap(a) = Overlap(b)
                   /\ disc_fs[a].mtime > disc_fs[b].mtime

\* C18 as stated: the eligible directories are those with a result artifact
\* under a non-WIP label other than the current run; the result is a best one
\* of them, and nothing is returned only when there is none.
C18_DiscoveryAsStated ==
    disc_pc = "returned" =>
        IF \E p \in RunPaths : EligibleAsStated(p)
        THEN /\ disc_result \in RunPaths
             /\ EligibleAsStated(disc_result)
             /\ \A o \in RunPaths : EligibleAsStated(o) => ~Better(o, disc_result)
        ELSE disc_result = NoPath

\* C18: latest_clean_run considers exactly the run directories under the host
\* root that are not the current run, whose label does not hold "wip" in any
\* letter case, that hold platform.json and at least one result artifact; it
\* returns one that no other eligible directory beats in the order (covers
\* every required type, fewest missing, largest macro overlap, newest), and
\* nothing when none is eligible; never the current run or a WIP run.
C18_Discovery ==
    disc_pc = "returned" =>
        /\ IF \E p \in RunPaths : Eligible(p)
           THEN /\ disc_result \in RunPaths
                /\ Eligible(disc_result)
                /\ \A o \in RunPaths : Eligible(o) => ~Better(o, disc_result)
           ELSE disc_result = NoPath
        /\ disc_result # NoPath =>
              /\ disc_result # disc_query.current_run
              /\ ~WipLabel(disc_result[1])

\* A call with required types where a WIP run, a run without platform.json
\* and two eligible runs of different rank exist, and the better was returned.
C18_Witness ==
    /\ disc_pc = "returned"
    /\ disc_result \in RunPaths
    /\ disc_query.required_macro_types # {}
    /\ disc_fs[<< LabelWip, "t1" >>].kind = "dir"
    /\ \E p \in RunPaths : EligibleAsStated(p) /\ ~disc_fs[p].platform
    /\ \E o \in RunPaths : Eligible(o) /\ Better(disc_result, o) /\ Missing(o) > Missing(disc_result)
                           /\ Missing(disc_result) > 0

(***************************************************************************)
(* run.py: the repetitions of one run type in cmd_wip / cmd_baseline and   *)
(* the payload stored for it.                                              *)
(***************************************************************************)
\* run_macro: the payload the benchmark wrote, without its skipped rows and
\* with their count when there were any.
run_macro(raw) ==
    LET ok_rows == SelectSeq(raw.results,
                        LAMBDA r : Field(r, "status", StrV("")) # StrV("skipped"))
        skipped_count == Len(raw.results) - Len(ok_rows)
    IN IF skipped_count > 0
       THEN [fields |-> SetField(raw.fields, "skipped_count", IntV(skipped_count)),
             results |-> ok_rows]
       ELSE raw

\* run_micro: the payload the benchmark wrote.
run_micro(raw) == raw

\* "aggregate_*_payloads(payloads[, rt]) if args.repetitions > 1 else payloads[0]"
stored_payload(a, payloads) ==
    IF a.repetitions > 1
    THEN (IF a.run_type = "MICRO" THEN aggregate_micro_payloads(payloads)
          ELSE aggregate_macro_payloads(payloads, a.run_type))
    ELSE payloads[1]

\* "if agg:" of cmd_wip; cmd_baseline writes whatever it got.
IsWritten(a, agg) == a.cmd = "baseline" \/ agg # NoPayload

PipeArgs ==
    [cmd : { "wip", "baseline" }, repetitions : 1..MaxPayloads,
     run_type : { "MACRO-SMALL", "MICRO" }]

\* parse_types and the checks before the repetition loop have passed.
PipeStart(a) ==
    /\ pipe_pc = "idle"
    /\ pipe_args' = a
    /\ pipe_pc' = "running"
    /\ UNCHANGED << pipe_payloads, pipe_stored, cmpVars, runnerVars, aggVars, discVars, lbcVars >>

\* One repetition: run_payloads[rt].append(run_macro(...) / run_micro(...)).
PipeRun(raw) ==
    /\ pipe_pc = "running"
    /\ Len(pipe_payloads) < pipe_args.repetitions
    /\ pipe_payloads' = Append(pipe_payloads,
                               IF pipe_args.run_type = "MICRO" THEN run_micro(raw)
                               ELSE run_macro(raw))
    /\ UNCHANGED << pipe_pc, pipe_args, pipe_stored, cmpVars, runnerVars, aggVars, discVars, lbcVars >>

\* The aggregate step after the loop and write_json of its result.
PipeAggregate ==
    /\ pipe_pc = "running"
    /\ Len(pipe_payloads) = pipe_args.repetitions
    /\ LET agg == stored_payload(pipe_args, pipe_payloads)
       IN IF IsWritten(pipe_args, agg)
          THEN pipe_stored' = agg /\ pipe_pc' = "stored"
          ELSE pipe_stored' = pipe_stored /\ pipe_pc' = "skipped"
    /\ UNCHANGED << pipe_args, pipe_payloads, cmpVars, runnerVars, aggVars, discVars, lbcVars >>

InitPipeline ==
    /\ InitMain(NoFile)
    /\ InitRunner(EmptyMap)
    /\ InitAgg
    /\ InitDisc(EmptyMap)
    /\ InitPipe
    /\ InitLbc

NextPipeline ==
    \/ pipe_pc = "idle" /\ \E a \in PipeArgs : PipeStart(a)
    \/ /\ pipe_pc = "running"
       /\ \E raw \in (IF pipe_args.run_type = "MICRO" THEN MicroPayloads ELSE MacroPayloads) :
             PipeRun(raw)
    \/ PipeAggregate

SpecPipeline == InitPipeline /\ [][NextPipeline]_vars

\* The output of the aggregator applied to the raw payloads of the run type.
AggregatorOutput ==
    IF pipe_args.run_type = "MICRO" THEN aggregate_micro_payloads(pipe_payloads)
    ELSE aggregate_macro_payloads(pipe_payloads, pipe_args.run_type)

\* C21: for every repetition count N >= 1 the payload stored for a run type is
\* the aggregator's output over the N payloads of the repetitions, so a single
\* run is stored with key-sorted, folded rows and the aggregation annotation.
C21_SingleRunAggregated ==
    pipe_pc = "stored" => pipe_stored = AggregatorOutput

(***************************************************************************)
(* Leaderboard store: first observation of a key (SpecLeaderboard).        *)
(***************************************************************************)
\* update_leaderboard has returned in this invocation.
UpdateReturned ==
    /\ args.update_leaderboard
    /\ compared
    /\ pc \in { "lb_save", "return", "exited" }

\* C22 as stated: after update_leaderboard returns, every (dataset, mode) pair
\* of the supplied results has an entry in the store, whatever its total is.
C22_EveryPairHasEntry ==
    UpdateReturned => \A key \in DOMAIN candidate : LbKey(key) \in DOMAIN lb.entries

\* C22: after update_leaderboard returns, every supplied pair whose total
\* write_time_ms + read_time_ms is positive has an entry; a pair without a
\* previous entry gets one created with that total when the total is positive
\* and none when it is zero or negative.
C22_FirstObservationCreates ==
    [][ pc = "lb_update" =>
          \A key \in DOMAIN candidate :
              /\ SuppliedTotal(key) > 0 => LbKey(key) \in DOMAIN lb.entries'
              /\ LbKey(key) \notin DOMAIN lb.entries =>
                    IF SuppliedTotal(key) > 0
                    THEN /\ lb.entries'[LbKey(key)].best_total_ms = SuppliedTotal(key)
                         /\ lb.entries'[LbKey(key)].run = runs
                    ELSE LbKey(key) \notin DOMAIN lb.entries'
      ]_vars

\* C22 witness: one call created the entry of a key seen for the first time,
\* with a total above the best of another key, and created none for a key
\* whose total is zero.
C22_Witness ==
    /\ UpdateReturned
    /\ \E key \in DOMAIN candidate :
          /\ SuppliedTotal(key) = 0
          /\ LbKey(key) \notin DOMAIN lb.entries
    /\ \E key \in DOMAIN candidate :
          /\ LbKey(key) \in DOMAIN lb.entries
          /\ LbKey(key) \notin DOMAIN leaderboard_json.entries
          /\ lb.entries[LbKey(key)].run = runs
          /\ lb.entries[LbKey(key)].best_total_ms = SuppliedTotal(key)

(***************************************************************************)
(* leaderboard.json as a file, and the comparison processes that load,     *)
(* update and save it (compare_runs.py main, lines 437-455).               *)
(***************************************************************************)
\* json.dump(leaderboard, f, indent=2): the text of the document, cut into
\* blocks: the head with "updated", one block per entry, the closing braces.
json_dump(doc) ==
    LET keys == SelectSeq(<< "?/?", "iot/CSV", "weather/CSV" >>,
                          LAMBDA k : k \in DOMAIN doc.entries)
    IN << [kind |-> "head", updated |-> doc.updated] >>
       \o [i \in 1..Len(keys) |-> [kind |-> "entry", key |-> keys[i], entry |-> doc.entries[keys[i]]]]
       \o << [kind |-> "end"] >>

\* The text is one JSON document: json.loads does not raise.
is_document(blocks) ==
    /\ Len(blocks) >= 2
    /\ blocks[1].kind = "head"
    /\ blocks[Len(blocks)].kind = "end"
    /\ \A i \in 2..(Len(blocks) - 1) : blocks[i].kind = "entry"

\* json.loads(path.read_text()) of a text that is a document.
json_loads(blocks) ==
    [updated |-> blocks[1].updated,
     entries |-> [k \in { blocks[i].key : i \in 2..(Len(blocks) - 1) } |->
                    blocks[CHOOSE i \in 2..(Len(blocks) - 1) :
                              /\ blocks[i].key = k
                              /\ \A j \in (i + 1)..(Len(blocks) - 1) : blocks[j].key # k].entry]]

\* What load_leaderboard gives for the file: a fresh document when there is
\* no file, the document, or JSONDecodeError.
Unreadable == [error |-> "JSONDecodeError"]

load_leaderboard_file(disk) ==
    IF ~disk.exists THEN EmptyLeaderboard
    ELSE IF is_document(disk.blocks) THEN json_loads(disk.blocks)
    ELSE Unreadable

\* open(path, "w"): the file exists and is empty.
open_w(disk) == [exists |-> TRUE, blocks |-> << >>]

\* write() of the blocks data at offset off of the file: bytes there are
\* overwritten, the file grows as needed, a gap reads as zero bytes.
write_at(disk, off, data) ==
    [exists |-> TRUE,
     blocks |-> [i \in 1..(IF Len(disk.blocks) > off + Len(data)
                           THEN Len(disk.blocks) ELSE off + Len(data)) |->
                    IF i > off /\ i <= off + Len(data) THEN data[i - off]
                    ELSE IF i <= Len(disk.blocks) THEN disk.blocks[i]
                    ELSE [kind |-> "hole"]]]

Procs == { 1, 2 }

IdleProc == [pc |-> "idle", results |-> EmptyMap, lb |-> EmptyLeaderboard, ret |-> FALSE,
             prev |-> [exists |-> FALSE, blocks |-> << >>], off |-> 0,
             early |-> FALSE, concurrent |-> FALSE]

\* Positions of a process between its load and the end of its save.
ActivePcs == { "loaded", "save", "writing" }

\* Positions of a process that has not opened the file for writing.
BeforeOpenPcs == { "idle", "loaded", "save", "unchanged", "failed" }

\* main: lb = load_leaderboard(lb_dir), with the candidate results loaded.
LbcLoad(p, results) ==
    /\ lbc_procs[p].pc = "idle"
    /\ LET got == load_leaderboard_file(lbc_disk)
       IN lbc_procs' = [lbc_procs EXCEPT ![p] =
            [@ EXCEPT !.pc = IF got = Unreadable THEN "failed" ELSE "loaded",
                      !.lb = IF got = Unreadable THEN EmptyLeaderboard ELSE got,
                      !.results = results,
                      !.early = \A q \in Procs : lbc_procs[q].pc \in BeforeOpenPcs,
                      !.concurrent = \E q \in Procs \ { p } : lbc_procs[q].pc \in ActivePcs]]
    /\ UNCHANGED << lbc_disk, lbc_saved, cmpVars, runnerVars, aggVars, discVars, pipeVars >>

\* main: update_leaderboard(lb, candidate, ...) and the test of its result.
LbcUpdate(p) ==
    /\ lbc_procs[p].pc = "loaded"
    /\ LET u == update_leaderboard(lbc_procs[p].lb, lbc_procs[p].results, p, p)
       IN lbc_procs' = [lbc_procs EXCEPT ![p] =
            [@ EXCEPT !.pc = IF SaveAfterUpdate(u.ret) THEN "save" ELSE "unchanged",
                      !.lb = u.lb,
                      !.ret = u.ret]]
    /\ UNCHANGED << lbc_disk, lbc_saved, cmpVars, runnerVars, aggVars, discVars, pipeVars >>

\* save_leaderboard: open(path, "w").
LbcOpen(p) ==
    /\ lbc_procs[p].pc = "save"
    /\ lbc_disk' = open_w(lbc_disk)
    /\ lbc_procs' = [lbc_procs EXCEPT ![p] =
            [@ EXCEPT !.pc = "writing", !.prev = lbc_disk, !.off = 0]]
    /\ UNCHANGED << lbc_saved, cmpVars, runnerVars, aggVars, discVars, pipeVars >>

\* save_leaderboard: the buffer of json.dump reaches the file, k blocks of
\* it; with the last of them (the flush of close()) the with block ends.
LbcWrite(p, k) ==
    /\ lbc_procs[p].pc = "writing"
    /\ LET text == json_dump(lbc_procs[p].lb)
           off == lbc_procs[p].off
       IN /\ off + k <= Len(text)
          /\ lbc_disk' = write_at(lbc_disk, off, SubSeq(text, off + 1, off + k))
          /\ lbc_procs' = [lbc_procs EXCEPT ![p] =
                [@ EXCEPT !.off = off + k,
                          !.pc = IF off + k = Len(text) THEN "saved" ELSE "writing"]]
          /\ lbc_saved' = IF off + k = Len(text)
                          THEN Append(lbc_saved, [proc |-> p, doc |-> lbc_procs[p].lb])
                          ELSE lbc_saved
    /\ UNCHANGED << cmpVars, runnerVars, aggVars, discVars, pipeVars >>

\* The process is killed inside save_leaderboard; what it wrote stays.
LbcCrash(p) ==
    /\ lbc_procs[p].pc = "writing"
    /\ lbc_procs' = [lbc_procs EXCEPT ![p] = [@ EXCEPT !.pc = "crashed"]]
    /\ UNCHANGED << lbc_disk, lbc_saved, cmpVars, runnerVars, aggVars, discVars, pipeVars >>

\* The candidate results of the processes: a first iot result, a better
\* weather result, both, and a weather result equal to the stored best.
StoreResults ==
    { load_results(<< Rec("iot", 100, 50, 1000000, 1000) >>, EmptyMap),
      load_results(<< Rec("weather", 90, 50, 1000000, 10000) >>, EmptyMap),
      load_results(<< Rec("iot", 80, 50, 1000000, 1000),
                      Rec("weather", 100, 50, 1000000, 10000) >>, EmptyMap),
      load_results(<< Rec("weather", 110, 50, 1000000, 10000) >>, EmptyMap) }

InitStore ==
    /\ InitMain(NoFile)
    /\ InitRunner(EmptyMap)
    /\ InitAgg
    /\ InitDisc(EmptyMap)
    /\ InitPipe
    /\ lbc_disk \in { [exists |-> FALSE, blocks |-> << >>],
                      [exists |-> TRUE,
                       blocks |-> json_dump(load_leaderboard(StoredLeaderboard))] }
    /\ lbc_procs = [p \in Procs |-> IdleProc]
    /\ lbc_saved = << >>

NextStore ==
    \/ \E p \in Procs : lbc_procs[p].pc = "idle" /\ \E results \in StoreResults : LbcLoad(p, results)
    \/ \E p \in Procs : LbcUpdate(p)
    \/ \E p \in Procs : LbcOpen(p)
    \/ \E p \in Procs : lbc_procs[p].pc = "writing" /\ \E k \in 1..4 : LbcWrite(p, k)
    \/ \E p \in Procs : LbcCrash(p)

SpecStore == InitStore /\ [][NextStore]_vars

(***************************************************************************)
(* Properties of the shared leaderboard file (SpecStore).                  *)
(***************************************************************************)
\* C23: at every instant of a save_leaderboard call, and after a crash inside
\* it, a reader of the file gets the complete previous document or the
\* complete new one, never an empty, truncated or partly written file.
C23_AtomicSave ==
    \A p \in Procs :
        lbc_procs[p].pc \in { "writing", "crashed" } =>
            load_leaderboard_file(lbc_disk)
                \in { load_leaderboard_file(lbc_procs[p].prev), lbc_procs[p].lb }

\* Every process has run to its end without being killed or failing to load.
AllFinished == \A p \in Procs : lbc_procs[p].pc \in { "saved", "unchanged" }

\* Both processes loaded the file before either opened it for writing.
BothLoadedBeforeSaves == \A p \in Procs : lbc_procs[p].early

\* Each process loaded while no other was between its load and its save's end.
Serialized == \A p \in Procs : ~lbc_procs[p].concurrent

\* From one persisted document to a later one no entry is lost and no best
\* grows.
NoImprovementLost(old, new) ==
    \A k \in DOMAIN old.entries :
        /\ k \in DOMAIN new.entries
        /\ new.entries[k].best_total_ms <= old.entries[k].best_total_ms

\* C24: when both processes load before either saves, the file after both have
\* finished holds exactly the document of the process that saved last; when
\* the invocations are serialized, no improvement is lost and no persisted
\* best_total_ms increases from one save to the next.
C24_LastWriterWins ==
    AllFinished =>
        /\ (BothLoadedBeforeSaves /\ lbc_saved # << >>) =>
              load_leaderboard_file(lbc_disk) = lbc_saved[Len(lbc_saved)].doc
        /\ Serialized =>
              /\ lbc_saved # << >> =>
                    load_leaderboard_file(lbc_disk) = lbc_saved[Len(lbc_saved)].doc
              /\ \A i \in 1..Len(lbc_saved), j \in 1..Len(lbc_saved) :
                    i < j => NoImprovementLost(lbc_saved[i].doc, lbc_saved[j].doc)
====
